---- MODULE Spec2Model ----
(***************************************************************************)
(* Model of the polling / detection / simulation pipeline of the           *)
(* trade-arbitrage monitor: src/engine/monitor.js (createMonitor),         *)
(* src/engine/spreads.js, src/engine/simulator.js and the tables of        *)
(* src/db.js they write.                                                   *)
(*                                                                         *)
(* Numbers.  Prices, gas costs and amounts are integers (whole USD).       *)
(* Percentages are exact rationals <<n, d>> with d > 0, kept in lowest     *)
(* terms, so that threshold comparisons are exact.  Times are integer      *)
(* milliseconds.  A nullable column holds NULL (the empty tuple) or        *)
(* <<v>>.                                                                  *)
(***************************************************************************)
EXTENDS Integers, Sequences, FiniteSets, TLC

\* ------------------------------------------------------------------ bounds

\* Total number of runCycle invocations in one behaviour.
MaxCycles == 3

\* Most rows the prices table holds in one behaviour.
MaxPriceRows == 5

\* The values (ms) Date.now() takes, in increasing order.
ClockVals == <<0, 1500, 86401500>>

\* ------------------------------------------------- configuration (config.js)

\* gasCostUSD values an execution quote can carry.
GasVals == {0, 150}

\* referenceTradeSize passed by runCycle to detectSpreads
ReferenceTradeSize == 10000

\* milliseconds per UTC day
DayMs == 86400000

NULL == <<>>

\* ---------------------------------------------------------------- rationals

Abs(x) == IF x < 0 THEN 0 - x ELSE x

RECURSIVE Gcd(_, _)
Gcd(a, b) == IF b = 0 THEN a ELSE Gcd(b, a % b)

\* n/d in lowest terms with a positive denominator (d # 0)
Rat(n, d) ==
  LET g == Gcd(Abs(n), Abs(d))
      s == IF d < 0 THEN 0 - 1 ELSE 1
  IN  << (s * n) \div g, (s * d) \div g >>

RatSub(a, b) == Rat(a[1] * b[2] - b[1] * a[2], a[2] * b[2])

RatAdd(a, b) == Rat(a[1] * b[2] + b[1] * a[2], a[2] * b[2])

RatLess(a, b) == a[1] * b[2] < b[1] * a[2]

RatLeq(a, b) == a[1] * b[2] <= b[1] * a[2]

Zero == <<0, 1>>

\* config.minGrossSpreadPct = 0.05 and config.minNetSpreadPct = 0.02
DefaultMinGross == <<1, 20>>

DefaultMinNet == <<1, 50>>

Min(a, b) == IF a <= b THEN a ELSE b

Max(a, b) == IF a >= b THEN a ELSE b

\* ------------------------------------------------------------ sequence help

RECURSIVE ConcatAll(_)
ConcatAll(ss) == IF ss = <<>> THEN <<>> ELSE Head(ss) \o ConcatAll(Tail(ss))

\* elements of s in order, each kept at its first occurrence only
RECURSIVE Distinct(_)
Distinct(s) ==
  IF s = <<>> THEN <<>>
  ELSE LET r == Distinct(SubSeq(s, 1, Len(s) - 1))
           x == s[Len(s)]
       IN  IF \E i \in 1..Len(r) : r[i] = x THEN r ELSE Append(r, x)

Range(s) == {s[i] : i \in 1..Len(s)}

\* ------------------------------------------------ spreads.js: pure functions

\* UTC day bucket of a time in ms (the YYYY-MM-DD string, as a day number)
todayDateStr(nowMs) == nowMs \div DayMs

\* [chains[i], chains[j]] for i < j, in the order of the nested loops
generateChainPairs(chains) ==
  ConcatAll([i \in 1..Len(chains) |->
              [k \in 1..(Len(chains) - i) |-> <<chains[i], chains[i + k]>>]])

\* the spread taken relative to the higher price
calculateGrossSpreadOverHigh(priceA, chainA, priceB, chainB) ==
  LET low  == Min(priceA, priceB)
      high == Max(priceA, priceB)
  IN  IF low <= 0
      THEN [grossSpreadPct |-> Zero, buyChain |-> chainA, sellChain |-> chainB,
            buyPrice |-> priceA, sellPrice |-> priceB]
      ELSE [grossSpreadPct |-> Rat((high - low) * 100, high),
            buyChain  |-> IF priceA <= priceB THEN chainA ELSE chainB,
            sellChain |-> IF priceA <= priceB THEN chainB ELSE chainA,
            buyPrice  |-> Min(priceA, priceB),
            sellPrice |-> Max(priceA, priceB)]

calculateGrossSpread(priceA, chainA, priceB, chainB) ==
  LET low  == Min(priceA, priceB)
      high == Max(priceA, priceB)
  IN  IF low <= 0
      THEN [grossSpreadPct |-> Zero, buyChain |-> chainA, sellChain |-> chainB,
            buyPrice |-> priceA, sellPrice |-> priceB]
      ELSE [grossSpreadPct |-> Rat((high - low) * 100, low),
            buyChain  |-> IF priceA <= priceB THEN chainA ELSE chainB,
            sellChain |-> IF priceA <= priceB THEN chainB ELSE chainA,
            buyPrice  |-> Min(priceA, priceB),
            sellPrice |-> Max(priceA, priceB)]

\* the cost percentage minus the gross spread, the operands swapped
calculateNetSpreadSwapped(grossSpreadPct, buyGasCostUsd, sellGasCostUsd, tradeSize) ==
  IF tradeSize <= 0 THEN Zero
  ELSE RatSub(Rat((buyGasCostUsd + sellGasCostUsd) * 100, tradeSize), grossSpreadPct)

calculateNetSpread(grossSpreadPct, buyGasCostUsd, sellGasCostUsd, tradeSize) ==
  IF tradeSize <= 0 THEN Zero
  ELSE RatSub(grossSpreadPct, Rat((buyGasCostUsd + sellGasCostUsd) * 100, tradeSize))

isHighFriction(buyChain, sellChain) ==
  buyChain = "ethereum" \/ sellChain = "ethereum"

\* gasCosts[chain] ?? 0 ; gasCosts is a function on a subset of the chains
GasOf(gasCosts, chain) ==
  IF chain \in DOMAIN gasCosts THEN gasCosts[chain] ELSE 0

\* first element of pairPrices quoted for the chain (Array.prototype.find)
FindChain(pairPrices, chain) ==
  pairPrices[CHOOSE i \in 1..Len(pairPrices) :
               /\ pairPrices[i].chain = chain
               /\ \A j \in 1..(i - 1) : pairPrices[j].chain # chain]

\* a detection that applies the gross threshold only
DetectOneGrossOnly(pair, pairPrices, cp, gasCosts, minGross, minNet, refSize) ==
  LET priceA == FindChain(pairPrices, cp[1])
      priceB == FindChain(pairPrices, cp[2])
      g      == calculateGrossSpread(priceA.price, cp[1], priceB.price, cp[2])
      net    == calculateNetSpread(g.grossSpreadPct,
                                   GasOf(gasCosts, g.buyChain),
                                   GasOf(gasCosts, g.sellChain), refSize)
  IN  IF RatLess(g.grossSpreadPct, minGross) THEN <<>>
      ELSE << [pair |-> pair, buyChain |-> g.buyChain, sellChain |-> g.sellChain,
               buyPrice |-> g.buyPrice, sellPrice |-> g.sellPrice,
               grossSpreadPct |-> g.grossSpreadPct, netSpreadPct |-> net,
               highFriction |-> isHighFriction(g.buyChain, g.sellChain)] >>

\* the candidate of one [chainA, chainB] element, as a list of 0 or 1 spreads
DetectOne(pair, pairPrices, cp, gasCosts, minGross, minNet, refSize) ==
  LET priceA == FindChain(pairPrices, cp[1])
      priceB == FindChain(pairPrices, cp[2])
      g      == calculateGrossSpread(priceA.price, cp[1], priceB.price, cp[2])
      net    == calculateNetSpread(g.grossSpreadPct,
                                   GasOf(gasCosts, g.buyChain),
                                   GasOf(gasCosts, g.sellChain), refSize)
  IN  IF RatLess(g.grossSpreadPct, minGross) THEN <<>>
      ELSE IF RatLess(net, minNet) THEN <<>>
      ELSE << [pair |-> pair, buyChain |-> g.buyChain, sellChain |-> g.sellChain,
               buyPrice |-> g.buyPrice, sellPrice |-> g.sellPrice,
               grossSpreadPct |-> g.grossSpreadPct, netSpreadPct |-> net,
               highFriction |-> isHighFriction(g.buyChain, g.sellChain)] >>

detectSpreads(prices, gasCosts, minGross, minNet, refSize) ==
  LET pairOrder == Distinct([i \in 1..Len(prices) |-> prices[i].pair])
      ofPair(pair) ==
        LET pairPrices == SelectSeq(prices, LAMBDA p : p.pair = pair)
            chainPairs == generateChainPairs(
                            [i \in 1..Len(pairPrices) |-> pairPrices[i].chain])
        IN  ConcatAll([n \in 1..Len(chainPairs) |->
                        DetectOne(pair, pairPrices, chainPairs[n], gasCosts,
                                  minGross, minNet, refSize)])
  IN  ConcatAll([n \in 1..Len(pairOrder) |-> ofPair(pairOrder[n])])

\* ------------------------------------------------------------- db.js tables

\* A store: the four tables.  prices, spreads and simTrades are lists in
\* insertion order (a row's AUTOINCREMENT id is its position); dailyStats maps
\* a day to its row.
EmptyDb ==
  [prices |-> <<>>, spreads |-> <<>>, simTrades |-> <<>>, dailyStats |-> <<>>]

\* AppDatabase.insertPrice
insertPrice(db, row) == [db EXCEPT !.prices = Append(@, row)]

\* AppDatabase.insertSpread: closed_at and duration_seconds default to null
insertSpread(db, row) ==
  [db EXCEPT !.spreads =
     Append(@, [id |-> Len(@) + 1, detected_at |-> row.detected_at,
                closed_at |-> NULL, pair |-> row.pair,
                buy_chain |-> row.buy_chain, sell_chain |-> row.sell_chain,
                buy_price |-> row.buy_price, sell_price |-> row.sell_price,
                gross_spread_pct |-> row.gross_spread_pct,
                net_spread_pct |-> row.net_spread_pct,
                duration_seconds |-> NULL])]

\* AppDatabase.insertSimTrade
insertSimTrade(db, row) == [db EXCEPT !.simTrades = Append(@, row)]

\* AppDatabase.upsertDailyStats: insert, or overwrite every column on conflict
upsertDailyStats(db, row) ==
  [db EXCEPT !.dailyStats =
     [d \in (DOMAIN @) \cup {row.date} |-> IF d = row.date THEN row ELSE @[d]]]

\* s sorted by detected_at descending (rows of equal detected_at by id)
RECURSIVE SortDesc(_)
SortDesc(s) ==
  IF s = <<>> THEN <<>>
  ELSE LET i == CHOOSE i \in 1..Len(s) :
                  \A j \in 1..Len(s) :
                     \/ s[j].detected_at < s[i].detected_at
                     \/ (s[j].detected_at = s[i].detected_at /\ s[j].id >= s[i].id)
       IN  <<s[i]>> \o SortDesc(SubSeq(s, 1, i - 1) \o SubSeq(s, i + 1, Len(s)))

\* getOpenSpreads without its WHERE closed_at IS NULL
getAllSpreads(db) == SortDesc(db.spreads)

\* AppDatabase.getOpenSpreads
getOpenSpreads(db) ==
  SortDesc(SelectSeq(db.spreads, LAMBDA r : r.closed_at = NULL))

\* ------------------------------------------------- spreads.js: the lifecycle

\* a key that forgets the direction of the trade
spreadKeyUndirected(spread) ==
  IF "buyChain" \in DOMAIN spread
  THEN <<spread.pair, {spread.buyChain, spread.sellChain}>>
  ELSE <<spread.pair, {spread.buy_chain, spread.sell_chain}>>

\* key of a candidate (buyChain) or of a stored row (buy_chain)
spreadKey(spread) ==
  IF "buyChain" \in DOMAIN spread
  THEN <<spread.pair, spread.buyChain, spread.sellChain>>
  ELSE <<spread.pair, spread.buy_chain, spread.sell_chain>>

\* Math.floor in the place of Math.round
FloorDiv1000(x) == x \div 1000

\* Math.round(x / 1000): the nearest integer, a half rounding up
RoundDiv1000(x) == (x + 500) \div 1000

RECURSIVE SumInt(_)
SumInt(s) == IF s = <<>> THEN 0 ELSE Head(s) + SumInt(Tail(s))

RECURSIVE SumRat(_)
SumRat(s) == IF s = <<>> THEN Zero ELSE RatAdd(Head(s), SumRat(Tail(s)))

RECURSIVE MaxRat(_)
MaxRat(s) ==
  IF Len(s) = 1 THEN s[1]
  ELSE LET m == MaxRat(Tail(s)) IN IF RatLess(Head(s), m) THEN m ELSE Head(s)

\* the values of f that occur most often among the rows (GROUP BY f ORDER BY
\* cnt DESC LIMIT 1 returns one of them), NULL when there is no row
MostActive(rows, f(_)) ==
  LET vals   == {f(rows[i]) : i \in 1..Len(rows)}
      cnt(v) == Cardinality({i \in 1..Len(rows) : f(rows[i]) = v})
  IN  IF rows = <<>> THEN NULL
      ELSE <<{v \in vals : \A w \in vals : cnt(w) <= cnt(v)}>>

\* a recomputation that counts the spreads and trades of every day
updateDailyStatsAllTime(db, nowMs) ==
  LET date       == todayDateStr(nowMs)
      today      == db.spreads
      actionable == SelectSeq(today, LAMBDA r : r.net_spread_pct # NULL)
      sims       == db.simTrades
      nets       == [i \in 1..Len(actionable) |-> actionable[i].net_spread_pct[1]]
      sumNet     == SumRat(nets)
  IN  upsertDailyStats(db,
        [date               |-> date,
         total_spreads      |-> Len(today),
         actionable_spreads |-> Len(actionable),
         sim_trades         |-> Len(sims),
         total_sim_profit   |-> SumInt([i \in 1..Len(sims) |-> sims[i].net_profit_usd]),
         avg_spread_pct     |-> IF nets = <<>> THEN Zero
                                ELSE Rat(sumNet[1], sumNet[2] * Len(nets)),
         best_spread_pct    |-> IF nets = <<>> THEN Zero ELSE MaxRat(nets),
         most_active_pair   |-> MostActive(today, LAMBDA r : r.pair),
         most_active_route  |-> MostActive(today,
                                  LAMBDA r : <<r.buy_chain, r.sell_chain>>)])

updateDailyStats(db, nowMs) ==
  LET date       == todayDateStr(nowMs)
      startOfDay == date * DayMs
      endOfDay   == startOfDay + DayMs
      today      == SelectSeq(db.spreads,
                      LAMBDA r : r.detected_at >= startOfDay /\ r.detected_at < endOfDay)
      actionable == SelectSeq(today, LAMBDA r : r.net_spread_pct # NULL)
      sims       == SelectSeq(db.simTrades,
                      LAMBDA t : t.timestamp >= startOfDay /\ t.timestamp < endOfDay)
      nets       == [i \in 1..Len(actionable) |-> actionable[i].net_spread_pct[1]]
      sumNet     == SumRat(nets)
  IN  upsertDailyStats(db,
        [date               |-> date,
         total_spreads      |-> Len(today),
         actionable_spreads |-> Len(actionable),
         sim_trades         |-> Len(sims),
         total_sim_profit   |-> SumInt([i \in 1..Len(sims) |-> sims[i].net_profit_usd]),
         avg_spread_pct     |-> IF nets = <<>> THEN Zero
                                ELSE Rat(sumNet[1], sumNet[2] * Len(nets)),
         best_spread_pct    |-> IF nets = <<>> THEN Zero ELSE MaxRat(nets),
         most_active_pair   |-> MostActive(today, LAMBDA r : r.pair),
         most_active_route  |-> MostActive(today,
                                  LAMBDA r : <<r.buy_chain, r.sell_chain>>)])

\* the closing UPDATE of one open row
CloseRow(r, nowMs) ==
  [r EXCEPT !.closed_at = <<nowMs>>,
            !.duration_seconds = <<RoundDiv1000(nowMs - r.detected_at)>>]

\* the first loop of processSpreads: close the open rows no longer detected
CloseUndetected(db, openSpreads, detectedKeys, nowMs) ==
  LET gone == SelectSeq(openSpreads, LAMBDA o : spreadKey(o) \notin detectedKeys)
      goneIds == {gone[i].id : i \in 1..Len(gone)}
  IN  [db     |-> [db EXCEPT !.spreads =
                     [i \in 1..Len(@) |->
                        IF i \in goneIds THEN CloseRow(@[i], nowMs) ELSE @[i]]],
       closed |-> [i \in 1..Len(gone) |-> CloseRow(gone[i], nowMs)]]

\* a second loop that writes the candidate's prices back to the open rows of
\* its key (an upsert)
RECURSIVE RecordNewOrUpdate(_, _, _, _, _)
RecordNewOrUpdate(acc, detected, n, openKeys, nowMs) ==
  IF n > Len(detected) THEN acc
  ELSE LET d == detected[n]
       IN  IF spreadKey(d) \in openKeys
           THEN RecordNewOrUpdate(
                  [acc EXCEPT !.db.spreads =
                     [i \in 1..Len(@) |->
                        IF @[i].closed_at = NULL /\ spreadKey(@[i]) = spreadKey(d)
                        THEN [@[i] EXCEPT !.buy_price = d.buyPrice,
                                          !.sell_price = d.sellPrice,
                                          !.gross_spread_pct = d.grossSpreadPct,
                                          !.net_spread_pct = <<d.netSpreadPct>>]
                        ELSE @[i]]],
                  detected, n + 1, openKeys, nowMs)
           ELSE LET db1 == insertSpread(acc.db,
                             [detected_at |-> nowMs, pair |-> d.pair,
                              buy_chain |-> d.buyChain, sell_chain |-> d.sellChain,
                              buy_price |-> d.buyPrice, sell_price |-> d.sellPrice,
                              gross_spread_pct |-> d.grossSpreadPct,
                              net_spread_pct |-> <<d.netSpreadPct>>])
                    rec == [id |-> Len(db1.spreads), pair |-> d.pair,
                            buyChain |-> d.buyChain, sellChain |-> d.sellChain,
                            buyPrice |-> d.buyPrice, sellPrice |-> d.sellPrice,
                            grossSpreadPct |-> d.grossSpreadPct,
                            netSpreadPct |-> d.netSpreadPct,
                            highFriction |-> d.highFriction,
                            detected_at |-> nowMs]
               IN  RecordNewOrUpdate([db |-> updateDailyStats(db1, nowMs),
                                      newSpreads |-> Append(acc.newSpreads, rec)],
                                     detected, n + 1, openKeys, nowMs)

\* the second loop of processSpreads over detected[n..]: insert each candidate
\* whose key was not open, and recompute the day's statistics after each insert
RECURSIVE RecordNew(_, _, _, _, _)
RecordNew(acc, detected, n, openKeys, nowMs) ==
  IF n > Len(detected) THEN acc
  ELSE LET d == detected[n]
       IN  IF spreadKey(d) \in openKeys
           THEN RecordNew(acc, detected, n + 1, openKeys, nowMs)
           ELSE LET db1 == insertSpread(acc.db,
                             [detected_at |-> nowMs, pair |-> d.pair,
                              buy_chain |-> d.buyChain, sell_chain |-> d.sellChain,
                              buy_price |-> d.buyPrice, sell_price |-> d.sellPrice,
                              gross_spread_pct |-> d.grossSpreadPct,
                              net_spread_pct |-> <<d.netSpreadPct>>])
                    rec == [id |-> Len(db1.spreads), pair |-> d.pair,
                            buyChain |-> d.buyChain, sellChain |-> d.sellChain,
                            buyPrice |-> d.buyPrice, sellPrice |-> d.sellPrice,
                            grossSpreadPct |-> d.grossSpreadPct,
                            netSpreadPct |-> d.netSpreadPct,
                            highFriction |-> d.highFriction,
                            detected_at |-> nowMs]
               IN  RecordNew([db |-> updateDailyStats(db1, nowMs),
                              newSpreads |-> Append(acc.newSpreads, rec)],
                             detected, n + 1, openKeys, nowMs)

\* processSpreads that does not look up which keys are already open
processSpreadsNoOpenKeys(db, detectedSpreads, nowMs) ==
  LET openSpreads  == getOpenSpreads(db)
      detectedKeys == {spreadKey(detectedSpreads[i]) : i \in 1..Len(detectedSpreads)}
      closing      == CloseUndetected(db, openSpreads, detectedKeys, nowMs)
      rec          == RecordNew([db |-> closing.db, newSpreads |-> <<>>],
                                detectedSpreads, 1, {}, nowMs)
  IN  [db |-> rec.db, newSpreads |-> rec.newSpreads, closedSpreads |-> closing.closed]

\* processSpreads: [db, newSpreads, closedSpreads]
processSpreads(db, detectedSpreads, nowMs) ==
  LET openSpreads  == getOpenSpreads(db)
      detectedKeys == {spreadKey(detectedSpreads[i]) : i \in 1..Len(detectedSpreads)}
      closing      == CloseUndetected(db, openSpreads, detectedKeys, nowMs)
      openKeys     == {spreadKey(openSpreads[i]) : i \in 1..Len(openSpreads)}
      rec          == RecordNew([db |-> closing.db, newSpreads |-> <<>>],
                                detectedSpreads, 1, openKeys, nowMs)
  IN  [db |-> rec.db, newSpreads |-> rec.newSpreads, closedSpreads |-> closing.closed]

\* ------------------------------------------------------ monitor.js: state

VARIABLES
  running,   \* createMonitor: let running
  timer,     \* createMonitor: let timer; NULL or <<handle>> of the last setTimeout
  timers,    \* handles of the timeouts that are armed and have not fired
  cycles,    \* the runCycle invocations in flight: id -> position and locals
  started,   \* how many invocations of runCycle there have been
  db,        \* the store shared by all invocations
  clock,     \* Date.now(), as an index into ClockVals
  config,    \* the options of createMonitor and config.simTradeSizes
  lastOp     \* history: the operation of the last step, the lines it logged,
             \* its call of processSpreads and the invocation that returned in it

vars == <<running, timer, timers, cycles, started, db, clock, config, lastOp>>

\* one observation of what a response of the price source parses to
\* (parsePrices pushes one per matching coin key, in response order)
Obs(chain, price) == [chain |-> chain, pair |-> "ETH/USDC", price |-> price]

\* what fetchPrices resolves with: the observations and the number of stale
\* entries it discarded
Resp(prices, stale) == [prices |-> prices, stale |-> stale]

\* the responses of the price source while start() and stop() interleave: no
\* observation, or a spread
SchedFeeds ==
  { Resp(<<>>, 0),
    Resp(<<Obs("ethereum", 100), Obs("arbitrum", 101)>>, 0) }

\* the responses of the price source of a monitor that is never stopped: also
\* the spread in the other direction, equal prices, a stale entry, three
\* chains, a response that lists one token under two spellings of its
\* address (addressToPair compares addresses case-insensitively, so both keys
\* parse to the same chain and pair), and a wider spread
Feeds ==
  SchedFeeds \cup
  { Resp(<<Obs("ethereum", 101), Obs("arbitrum", 100)>>, 0),
    Resp(<<Obs("ethereum", 100), Obs("arbitrum", 101), Obs("base", 100)>>, 0),
    Resp(<<Obs("arbitrum", 100), Obs("ethereum", 100)>>, 0),
    Resp(<<Obs("arbitrum", 100)>>, 1),
    Resp(<<Obs("arbitrum", 100), Obs("arbitrum", 100), Obs("ethereum", 101)>>, 0),
    Resp(<<Obs("ethereum", 100), Obs("arbitrum", 102)>>, 0) }

\* gasCostUSD of the quotes of the simulated legs
SimGasVals == {1}

\* tokens bought / USD received reported by the simulation quotes
TokenVals == {4}

UsdVals == {10150}

\* the locals of a runCycle invocation that has reached its first await
NewCycle(origin) ==
  [pc |-> "fetch", origin |-> origin, nowMs |-> 0, prices |-> <<>>,
   detected |-> <<>>, todo |-> <<>>, gasCosts |-> <<>>,
   newSpreads |-> <<>>, closedSpreads |-> <<>>,
   simIdx |-> 0, sizeIdx |-> 0, leg |-> "none", buy |-> NULL, results |-> <<>>,
   stats |-> [priceCount |-> 0, spreadsDetected |-> 0, simulated |-> 0,
              errors |-> <<>>],
   raised |-> <<>>,  \* history: the exceptions raised inside this invocation
   reqs |-> <<>>,    \* history: the execution quotes this invocation requested
   sims |-> <<>>]    \* history: the outcome of each simulateTradesFn call

\* the request of one fetchQuote call
QuoteReq(kind, chain, pair, amount) ==
  [kind |-> kind, chain |-> chain, pair |-> pair, amount |-> amount]

InFlight == DOMAIN cycles

\* the history of a step that is no call of an invocation
Op(op, logs) ==
  [op |-> op, c |-> 0, logs |-> logs, recon |-> NULL, ret |-> NULL]

\* ------------------------------------------- monitor.js: the steps of runCycle

\* A step of an invocation yields [rec, db, logs, recon]: its locals, the
\* store, the lines it logged and, when it called processSpreads, <<the
\* arguments and the result of the call>>.  It runs from one await to the next,
\* or to the return.

\* an outer catch that swallows the exception without recording it
CaughtSilently(rec, kind) ==
  [rec EXCEPT !.raised = Append(@, kind), !.pc = "done"]

\* outer catch of runCycle: push err.message, log it, fall through to the stats
Caught(rec, kind) ==
  [rec EXCEPT !.stats.errors = Append(@, kind), !.raised = Append(@, kind),
              !.pc = "done"]

\* the request of the buy leg of newSpreads[i] at sizes[k] (simulateSingleTrade)
BuyReq(rec, i, k) ==
  QuoteReq("buy", rec.newSpreads[i].buyChain, rec.newSpreads[i].pair,
           config.simTradeSizes[k])

\* step 7 reaches simulateTradesFn for newSpreads[i]
EnterSim(rec, i) ==
  [rec EXCEPT !.pc = "sim", !.simIdx = i, !.sizeIdx = 1, !.leg = "buy",
              !.buy = NULL, !.results = <<>>,
              !.reqs = Append(@, BuyReq(rec, i, 1))]

\* the loop of step 7 moves past newSpreads[rec.simIdx]; after the last one the
\* closed spreads are logged
NextSpread(rec, d) ==
  IF rec.simIdx < Len(rec.newSpreads)
  THEN [rec |-> EnterSim(rec, rec.simIdx + 1), db |-> d, logs |-> <<>>,
        recon |-> NULL]
  ELSE [rec |-> [rec EXCEPT !.pc = "done"], db |-> d,
        logs |-> IF rec.closedSpreads # <<>> THEN <<"Closed spread(s)">> ELSE <<>>,
        recon |-> NULL]

\* steps 6 and 7 with the simulations run for every open spread, not only for
\* the newly opened ones
ReconcileSimulatesOpen(rec, d, cands, refine, fails) ==
  IF fails
  THEN [rec |-> Caught(rec, "ReconcileError"), db |-> d,
        logs |-> <<"Cycle error">>, recon |-> NULL]
  ELSE LET r  == processSpreads(d, cands, rec.nowMs)
           h  == <<[detectedSpreads |-> cands, nowMs |-> rec.nowMs,
                    newSpreads |-> r.newSpreads,
                    closedSpreads |-> r.closedSpreads]>>
           o  == getOpenSpreads(r.db)
           all == [i \in 1..Len(o) |->
                     [id |-> o[i].id, pair |-> o[i].pair,
                      buyChain |-> o[i].buy_chain, sellChain |-> o[i].sell_chain,
                      detected_at |-> o[i].detected_at]]
       IN  IF refine
           THEN [NextSpread([rec EXCEPT !.newSpreads = all,
                               !.closedSpreads = r.closedSpreads,
                               !.stats.spreadsDetected = Len(r.newSpreads)],
                            r.db)
                 EXCEPT !.recon = h]
           ELSE [rec |-> [rec EXCEPT !.pc = "done"], db |-> r.db,
                 logs |-> <<>>, recon |-> h]

\* steps 6 and 7 up to the first await: processSpreads, then the simulations.
\* refine: the call of step 6 (its result is used); otherwise the call of the
\* else branch (its result is dropped).
\* fails: the store raises inside processSpreads (before its first write)
Reconcile(rec, d, cands, refine, fails) ==
  IF fails
  THEN [rec |-> Caught(rec, "ReconcileError"), db |-> d,
        logs |-> <<"Cycle error">>, recon |-> NULL]
  ELSE LET r  == processSpreads(d, cands, rec.nowMs)
           h  == <<[detectedSpreads |-> cands, nowMs |-> rec.nowMs,
                    newSpreads |-> r.newSpreads,
                    closedSpreads |-> r.closedSpreads]>>
       IN  IF refine
           THEN [NextSpread([rec EXCEPT !.newSpreads = r.newSpreads,
                               !.closedSpreads = r.closedSpreads,
                               !.stats.spreadsDetected = Len(r.newSpreads)],
                            r.db)
                 EXCEPT !.recon = h]
           ELSE [rec |-> [rec EXCEPT !.pc = "done"], db |-> r.db,
                 logs |-> <<>>, recon |-> h]

\* the chains of the candidates, one entry per leg (a list, not a Set)
InvolvedChainsPerLeg(detected) ==
  ConcatAll([i \in 1..Len(detected) |->
               <<detected[i].buyChain, detected[i].sellChain>>])

\* the chains of the candidates in the order a Set first receives them
InvolvedChains(detected) ==
  Distinct(ConcatAll([i \in 1..Len(detected) |->
                        <<detected[i].buyChain, detected[i].sellChain>>]))

\* the refinement request for a chain: always the pair of detectedSpreads[0]
RefineReq(rec, chain) ==
  QuoteReq("refine", chain, rec.detected[1].pair, ReferenceTradeSize)

RECURSIVE InsertPrices(_, _, _, _)
InsertPrices(d, prices, n, nowMs) ==
  IF n = 0 THEN d
  ELSE insertPrice(InsertPrices(d, prices, n - 1, nowMs),
                   [timestamp |-> nowMs, chain |-> prices[n].chain,
                    pair |-> prices[n].pair, price |-> prices[n].price])

\* runCycle without the else branch of step 5: no candidate, nothing reconciled
AfterFetchNoElse(rec, d, prices, stale, nowMs, stored, fails) ==
  LET d1 == InsertPrices(d, prices, stored, nowMs)
      r0 == [rec EXCEPT !.nowMs = nowMs, !.prices = prices]
      lg == IF stale > 0 THEN <<"stale price(s) discarded">> ELSE <<>>
  IN  IF stored < Len(prices)
      THEN [rec |-> Caught(r0, "StoreError"), db |-> d1,
            logs |-> lg \o <<"Cycle error">>, recon |-> NULL]
      ELSE
        LET det == detectSpreads(prices, <<>>, config.minGrossSpreadPct, config.minNetSpreadPct,
                                 ReferenceTradeSize)
            r1  == [r0 EXCEPT !.stats.priceCount = Len(prices), !.detected = det]
        IN  IF det # <<>>
            THEN LET ch == InvolvedChains(det)
                 IN  [rec |-> [r1 EXCEPT !.pc = "quote", !.todo = ch,
                                  !.reqs = Append(@, RefineReq(r1, ch[1]))],
                      db  |-> d1, logs |-> lg, recon |-> NULL]
            ELSE [rec |-> [r1 EXCEPT !.pc = "done"], db |-> d1, logs |-> lg,
                  recon |-> NULL]

\* steps 2 to 5 after fetchPrices resolved, up to the next await.
\* stored: how many insertPrice calls succeed (Len(prices): all of them, one
\* less: the last one raises);
\* fails: whether processSpreads raises when there is no candidate
AfterFetch(rec, d, prices, stale, nowMs, stored, fails) ==
  LET d1 == InsertPrices(d, prices, stored, nowMs)
      r0 == [rec EXCEPT !.nowMs = nowMs, !.prices = prices]
      lg == IF stale > 0 THEN <<"stale price(s) discarded">> ELSE <<>>
  IN  IF stored < Len(prices)
      THEN [rec |-> Caught(r0, "StoreError"), db |-> d1,
            logs |-> lg \o <<"Cycle error">>, recon |-> NULL]
      ELSE
        LET det == detectSpreads(prices, <<>>, config.minGrossSpreadPct, config.minNetSpreadPct,
                                 ReferenceTradeSize)
            r1  == [r0 EXCEPT !.stats.priceCount = Len(prices), !.detected = det]
        IN  IF det # <<>>
            THEN LET ch == InvolvedChains(det)
                 IN  [rec |-> [r1 EXCEPT !.pc = "quote", !.todo = ch,
                                  !.reqs = Append(@, RefineReq(r1, ch[1]))],
                      db  |-> d1, logs |-> lg, recon |-> NULL]
            ELSE LET r == Reconcile(r1, d1, <<>>, FALSE, fails)
                 IN  [r EXCEPT !.logs = lg \o @]

\* a refinement that reconciles as soon as its first quote has settled
AfterQuoteReconcilesEarly(rec, d, gas, fails) ==
  LET chain == rec.todo[1]
      cost  == IF gas = NULL THEN 0 ELSE gas[1]
      g     == [ch \in (DOMAIN rec.gasCosts) \cup {chain} |->
                  IF ch = chain THEN cost ELSE rec.gasCosts[ch]]
      r1    == [rec EXCEPT !.gasCosts = g, !.todo = <<>>,
                    !.raised = IF gas = NULL THEN Append(@, "RefineQuoteError") ELSE @]
  IN  Reconcile(r1, d,
                detectSpreads(rec.prices, g, config.minGrossSpreadPct, config.minNetSpreadPct,
                              ReferenceTradeSize),
                TRUE, fails)

\* a refinement in which a failed quote goes to the outer catch of runCycle
AfterQuoteAborts(rec, d, gas, fails) ==
  LET chain == rec.todo[1]
      g     == [ch \in (DOMAIN rec.gasCosts) \cup {chain} |->
                  IF ch = chain THEN gas[1] ELSE rec.gasCosts[ch]]
      rest  == Tail(rec.todo)
      r1    == [rec EXCEPT !.gasCosts = g, !.todo = rest]
  IN  IF gas = NULL
      THEN [rec |-> Caught(rec, "RefineQuoteError"), db |-> d,
            logs |-> <<"Cycle error">>, recon |-> NULL]
      ELSE IF rest # <<>>
      THEN [rec |-> [r1 EXCEPT !.reqs = Append(@, RefineReq(r1, rest[1]))],
            db  |-> d, logs |-> <<>>, recon |-> NULL]
      ELSE Reconcile(r1, d,
                     detectSpreads(rec.prices, g, config.minGrossSpreadPct, config.minNetSpreadPct,
                                   ReferenceTradeSize),
                     TRUE, fails)

\* one refinement quote settles: gas is <<cost>>, or NULL when fetchQuote threw
AfterQuote(rec, d, gas, fails) ==
  LET chain == rec.todo[1]
      cost  == IF gas = NULL THEN 0 ELSE gas[1]
      g     == [ch \in (DOMAIN rec.gasCosts) \cup {chain} |->
                  IF ch = chain THEN cost ELSE rec.gasCosts[ch]]
      rest  == Tail(rec.todo)
      r1    == [rec EXCEPT !.gasCosts = g, !.todo = rest,
                    !.raised = IF gas = NULL THEN Append(@, "RefineQuoteError") ELSE @]
  IN  IF rest # <<>>
      THEN [rec |-> [r1 EXCEPT !.reqs = Append(@, RefineReq(r1, rest[1]))],
            db  |-> d, logs |-> <<>>, recon |-> NULL]
      ELSE Reconcile(r1, d,
                     detectSpreads(rec.prices, g, config.minGrossSpreadPct, config.minNetSpreadPct,
                                   ReferenceTradeSize),
                     TRUE, fails)

\* ----------------------------------------------- simulator.js: simulateTrades

\* simulateTrades pushes the result of sizes[rec.sizeIdx] and goes on to the
\* next size; after the last size it returns and step 7 counts the successes
SizeDone(rec, d, result) ==
  LET res == Append(rec.results, result)
  IN  IF rec.sizeIdx < Len(config.simTradeSizes)
      THEN [rec |-> [rec EXCEPT !.results = res, !.sizeIdx = @ + 1,
                                !.leg = "buy", !.buy = NULL,
                                !.reqs = Append(@, BuyReq(rec, rec.simIdx,
                                                         rec.sizeIdx + 1))],
            db |-> d, logs |-> <<>>, recon |-> NULL]
      ELSE NextSpread(
             [rec EXCEPT !.results = res, !.buy = NULL,
                !.stats.simulated =
                   @ + Cardinality({i \in 1..Len(res) : res[i].success}),
                !.sims = Append(@, [spread_id |-> rec.newSpreads[rec.simIdx].id,
                                    threw |-> FALSE, results |-> res])],
             d)

\* a catch around the whole loop of simulateTrades: the first failure ends it
SizeFailedAborts(rec, d, kind) ==
  LET res == Append(rec.results,
                    [success |-> FALSE, size |-> config.simTradeSizes[rec.sizeIdx],
                     error |-> kind])
  IN  NextSpread(
        [rec EXCEPT !.raised = Append(@, kind), !.results = res, !.buy = NULL,
           !.stats.simulated =
              @ + Cardinality({i \in 1..Len(res) : res[i].success}),
           !.sims = Append(@, [spread_id |-> rec.newSpreads[rec.simIdx].id,
                               threw |-> FALSE, results |-> res])],
        d)

\* a leg's fetchQuote, or insertSimTrade, threw: caught per size
SizeFailed(rec, d, kind) ==
  SizeDone([rec EXCEPT !.raised = Append(@, kind)], d,
           [success |-> FALSE, size |-> config.simTradeSizes[rec.sizeIdx],
            error |-> kind])

\* a sell leg that is asked to sell the trade size instead of the tokens bought
AfterBuySellsTradeSize(rec, d, tokensBought, gasCostBuy) ==
  [rec |-> [rec EXCEPT !.leg = "sell",
              !.buy = <<[tokensBought |-> tokensBought, gasCostBuy |-> gasCostBuy]>>,
              !.reqs = Append(@, QuoteReq("sell",
                                          rec.newSpreads[rec.simIdx].sellChain,
                                          rec.newSpreads[rec.simIdx].pair,
                                          config.simTradeSizes[rec.sizeIdx]))],
   db |-> d, logs |-> <<>>, recon |-> NULL]

\* the buy quote resolved: tokensBought and gasCostBuy, then the sell request
AfterBuy(rec, d, tokensBought, gasCostBuy) ==
  [rec |-> [rec EXCEPT !.leg = "sell",
              !.buy = <<[tokensBought |-> tokensBought, gasCostBuy |-> gasCostBuy]>>,
              !.reqs = Append(@, QuoteReq("sell",
                                          rec.newSpreads[rec.simIdx].sellChain,
                                          rec.newSpreads[rec.simIdx].pair,
                                          tokensBought))],
   db |-> d, logs |-> <<>>, recon |-> NULL]

\* a record whose profit leaves the gas of the two legs out
TradeRecordGrossProfit(spread, tradeSize, nowMs, tokensBought, usdReceived, gasCostBuy, gasCostSell) ==
  LET netProfitUsd == usdReceived - tradeSize
  IN  [spread_id |-> spread.id, timestamp |-> nowMs, pair |-> spread.pair,
       buy_chain |-> spread.buyChain, sell_chain |-> spread.sellChain,
       trade_size_usd |-> tradeSize, tokens_bought |-> tokensBought,
       usd_received |-> usdReceived, gas_cost_buy |-> gasCostBuy,
       gas_cost_sell |-> gasCostSell, net_profit_usd |-> netProfitUsd,
       profit_pct |-> IF tradeSize > 0 THEN Rat(netProfitUsd * 100, tradeSize)
                      ELSE Zero]

\* the record simulateSingleTrade builds once both quotes are in
TradeRecord(spread, tradeSize, nowMs, tokensBought, usdReceived, gasCostBuy, gasCostSell) ==
  LET netProfitUsd == usdReceived - tradeSize - gasCostBuy - gasCostSell
  IN  [spread_id |-> spread.id, timestamp |-> nowMs, pair |-> spread.pair,
       buy_chain |-> spread.buyChain, sell_chain |-> spread.sellChain,
       trade_size_usd |-> tradeSize, tokens_bought |-> tokensBought,
       usd_received |-> usdReceived, gas_cost_buy |-> gasCostBuy,
       gas_cost_sell |-> gasCostSell, net_profit_usd |-> netProfitUsd,
       profit_pct |-> IF tradeSize > 0 THEN Rat(netProfitUsd * 100, tradeSize)
                      ELSE Zero]

\* the sell quote resolved: build the record and insert it (stored: the insert
\* succeeds)
AfterSell(rec, d, usdReceived, gasCostSell, stored) ==
  LET trade == TradeRecord(rec.newSpreads[rec.simIdx],
                           config.simTradeSizes[rec.sizeIdx], rec.nowMs,
                           rec.buy[1].tokensBought, usdReceived,
                           rec.buy[1].gasCostBuy, gasCostSell)
  IN  IF stored
      THEN SizeDone(rec, insertSimTrade(d, trade),
                    [success |-> TRUE, size |-> config.simTradeSizes[rec.sizeIdx],
                     trade |-> trade])
      ELSE SizeFailed(rec, d, "SimStoreError")

\* a catch around the whole loop of step 7: the first rejection ends the loop
AfterSimThrowAborts(rec, d) ==
  [rec |-> [rec EXCEPT !.stats.errors = Append(@, "Simulation error"),
                       !.raised = Append(@, "Simulation error"),
                       !.sims = Append(@, [spread_id |-> rec.newSpreads[rec.simIdx].id,
                                           threw |-> TRUE, results |-> <<>>]),
                       !.pc = "done"],
   db |-> d, logs |-> <<>>, recon |-> NULL]

\* simulateTradesFn itself rejects (an injected simulator): inner catch of step 7
AfterSimThrow(rec, d) ==
  NextSpread([rec EXCEPT !.stats.errors = Append(@, "Simulation error"),
                         !.raised = Append(@, "Simulation error"),
                         !.sims = Append(@, [spread_id |-> rec.newSpreads[rec.simIdx].id,
                                             threw |-> TRUE, results |-> <<>>])],
             d)

\* --------------------------------------------------- monitor.js: scheduling

\* scheduleNext, called when invocation c has resolved: arm a timeout whose
\* handle is named after c
scheduleNext(c) ==
  IF running
  THEN /\ timer' = <<c>>
       /\ timers' = timers \cup {c}
  ELSE UNCHANGED <<timer, timers>>

\* a continuation that re-arms the timeout only after a cycle without errors
SettleCleanOnly(c, op, res) ==
  /\ db' = res.db
  /\ IF res.rec.pc \in {"done", "rejected"}
     THEN /\ cycles' = [k \in (DOMAIN cycles) \ {c} |-> cycles[k]]
          /\ IF res.rec.pc = "done" /\ res.rec.stats.errors = <<>>
             THEN scheduleNext(c)
             ELSE UNCHANGED <<timer, timers>>
          /\ lastOp' = [op |-> op, c |-> c,
                        logs |-> res.logs \o <<"Cycle complete">>,
                        recon |-> res.recon,
                        ret |-> <<[outcome |-> IF res.rec.pc = "done"
                                               THEN "resolved" ELSE "rejected",
                                   stats |-> res.rec.stats,
                                   raised |-> res.rec.raised,
                                   reqs |-> res.rec.reqs,
                                   sims |-> res.rec.sims,
                                   newSpreads |-> res.rec.newSpreads]>>]
     ELSE /\ cycles' = [cycles EXCEPT ![c] = res.rec]
          /\ UNCHANGED <<timer, timers>>
          /\ lastOp' = [op |-> op, c |-> c, logs |-> res.logs,
                        recon |-> res.recon, ret |-> NULL]
  /\ UNCHANGED <<running, started, clock, config>>

\* An invocation takes the step res.  When it returns (pc "done"), the stats
\* are logged and the continuation registered by start() or by the timeout
\* callback calls scheduleNext; no other task runs in between.  Were it to
\* reject (pc "rejected"), neither continuation would run.
Settle(c, op, res) ==
  /\ db' = res.db
  /\ IF res.rec.pc \in {"done", "rejected"}
     THEN /\ cycles' = [k \in (DOMAIN cycles) \ {c} |-> cycles[k]]
          /\ IF res.rec.pc = "done" THEN scheduleNext(c)
             ELSE UNCHANGED <<timer, timers>>
          /\ lastOp' = [op |-> op, c |-> c,
                        logs |-> res.logs \o <<"Cycle complete">>,
                        recon |-> res.recon,
                        ret |-> <<[outcome |-> IF res.rec.pc = "done"
                                               THEN "resolved" ELSE "rejected",
                                   stats |-> res.rec.stats,
                                   raised |-> res.rec.raised,
                                   reqs |-> res.rec.reqs,
                                   sims |-> res.rec.sims,
                                   newSpreads |-> res.rec.newSpreads]>>]
     ELSE /\ cycles' = [cycles EXCEPT ![c] = res.rec]
          /\ UNCHANGED <<timer, timers>>
          /\ lastOp' = [op |-> op, c |-> c, logs |-> res.logs,
                        recon |-> res.recon, ret |-> NULL]
  /\ UNCHANGED <<running, started, clock, config>>

\* runCycle is called: the invocation runs up to its first await, the request
\* of fetchPrices
runCycle(origin) ==
  /\ started' = started + 1
  /\ cycles' = [k \in (DOMAIN cycles) \cup {started + 1} |->
                  IF k = started + 1 THEN NewCycle(origin) ELSE cycles[k]]

\* start() without its guard on running
startUnguarded ==
  /\ started < MaxCycles
  /\ running' = TRUE
  /\ runCycle("start")
  /\ lastOp' = Op("start", <<"Starting price monitor">>)
  /\ UNCHANGED <<timer, timers, db, clock, config>>

\* start(): a no-op when running, else mark running and call runCycle, which
\* runs up to its first await (the price request)
start ==
  IF running
  THEN /\ lastOp' = Op("start", <<>>)
       /\ UNCHANGED <<running, timer, timers, cycles, started, db, clock, config>>
  ELSE /\ started < MaxCycles
       /\ running' = TRUE
       /\ runCycle("start")
       /\ lastOp' = Op("start", <<"Starting price monitor">>)
       /\ UNCHANGED <<timer, timers, db, clock, config>>

\* a stop() that also abandons the invocations in flight
stopAbortsCycles ==
  /\ running' = FALSE
  /\ IF timer # NULL
     THEN /\ timers' = timers \ {timer[1]}
          /\ timer' = NULL
     ELSE UNCHANGED <<timer, timers>>
  /\ cycles' = <<>>
  /\ lastOp' = Op("stop", <<"Stopped price monitor">>)
  /\ UNCHANGED <<started, db, clock, config>>

\* stop(): clear the flag and the timeout whose handle is in timer
stop ==
  /\ running' = FALSE
  /\ IF timer # NULL
     THEN /\ timers' = timers \ {timer[1]}
          /\ timer' = NULL
     ELSE UNCHANGED <<timer, timers>>
  /\ lastOp' = Op("stop", <<"Stopped price monitor">>)
  /\ UNCHANGED <<cycles, started, db, clock, config>>

\* an armed timeout fires: its callback calls runCycle
timerFires(h) ==
  /\ h \in timers
  /\ started < MaxCycles
  /\ timers' = timers \ {h}
  /\ runCycle("timer")
  /\ lastOp' = Op("timerFires", <<>>)
  /\ UNCHANGED <<running, timer, db, clock, config>>

\* the wall clock advances
tick ==
  /\ clock < Len(ClockVals)
  /\ todayDateStr(ClockVals[clock + 1]) = todayDateStr(ClockVals[clock])
  /\ clock' = clock + 1
  /\ lastOp' = Op("tick", <<>>)
  /\ UNCHANGED <<running, timer, timers, cycles, started, db, config>>

\* the clock passes midnight UTC: Date.now() moves into the next day
midnight ==
  /\ clock < Len(ClockVals)
  /\ todayDateStr(ClockVals[clock + 1]) # todayDateStr(ClockVals[clock])
  /\ clock' = clock + 1
  /\ lastOp' = Op("midnight", <<>>)
  /\ UNCHANGED <<running, timer, timers, cycles, started, db, config>>

\* ------------------------------------------- monitor.js: runCycle's awaits

\* a failed price fetch that still reaches the reconcile of the else branch
fetchThrowsThenReconciles(c) ==
  /\ cycles[c].pc = "fetch"
  /\ Settle(c, "fetchThrows",
            Reconcile([cycles[c] EXCEPT
                         !.stats.errors = Append(@, "PriceSourceError"),
                         !.raised = Append(@, "PriceSourceError"),
                         !.nowMs = ClockVals[clock]],
                      db, <<>>, FALSE, FALSE))

\* await fetchPrices rejects
fetchThrows(c) ==
  /\ cycles[c].pc = "fetch"
  /\ Settle(c, "fetchThrows",
            [rec |-> Caught(cycles[c], "PriceSourceError"), db |-> db,
             logs |-> <<"Cycle error">>, recon |-> NULL])

\* await fetchPrices resolves with {prices, stale}
fetchReturns(c, feeds) ==
  /\ cycles[c].pc = "fetch"
  /\ \E r \in feeds :
       /\ Len(db.prices) + Len(r.prices) <= MaxPriceRows
       /\ \E stored \in {Len(r.prices) - 1, Len(r.prices)} \ {0 - 1},
             fails \in BOOLEAN :
            Settle(c, "fetchReturns",
                   AfterFetch(cycles[c], db, r.prices, r.stale, ClockVals[clock],
                              stored, fails))

\* await fetchQuote of the refinement settles for the chain at the head of todo
quoteSettles(c) ==
  /\ cycles[c].pc = "quote"
  /\ \E gas \in {NULL} \cup {<<g>> : g \in GasVals}, fails \in BOOLEAN :
       Settle(c, "quoteSettles", AfterQuote(cycles[c], db, gas, fails))

\* await fetchQuote of the buy leg settles
buySettles(c) ==
  /\ cycles[c].pc = "sim"
  /\ cycles[c].leg = "buy"
  /\ \/ \E t \in TokenVals, g \in SimGasVals :
          Settle(c, "buySettles", AfterBuy(cycles[c], db, t, g))
     \/ Settle(c, "buySettles", SizeFailed(cycles[c], db, "SimQuoteError"))

\* await fetchQuote of the sell leg settles
sellSettles(c) ==
  /\ cycles[c].pc = "sim"
  /\ cycles[c].leg = "sell"
  /\ \/ \E u \in UsdVals, g \in SimGasVals, stored \in BOOLEAN :
          Settle(c, "sellSettles", AfterSell(cycles[c], db, u, g, stored))
     \/ Settle(c, "sellSettles", SizeFailed(cycles[c], db, "SimQuoteError"))

\* await simulateTradesFn rejects, for a simulator that raises when called
simThrows(c) ==
  /\ cycles[c].pc = "sim"
  /\ cycles[c].sizeIdx = 1
  /\ cycles[c].leg = "buy"
  /\ Settle(c, "simThrows", AfterSimThrow(cycles[c], db))

\* ------------------------------------------------------------ specification

\* the state createMonitor leaves, for a configuration cfg
InitWith(cfg) ==
  /\ running = FALSE
  /\ timer = NULL
  /\ timers = {}
  /\ cycles = <<>>
  /\ started = 0
  /\ db = EmptyDb
  /\ clock = 1
  /\ config = cfg
  /\ lastOp = Op("createMonitor", <<>>)

DefaultConfig ==
  [minGrossSpreadPct |-> DefaultMinGross, minNetSpreadPct |-> DefaultMinNet,
   simTradeSizes |-> <<10000>>]

\* The monitor under every interleaving of start(), stop(), the timeouts and
\* the awaits of its invocations.
Init == InitWith(DefaultConfig)

Next ==
  \/ start
  \/ stop
  \/ \E h \in timers : timerFires(h)
  \/ tick
  \/ \E c \in InFlight : fetchThrows(c)
  \/ \E c \in InFlight : fetchReturns(c, SchedFeeds)
  \/ \E c \in InFlight : quoteSettles(c)
  \/ \E c \in InFlight : buySettles(c)
  \/ \E c \in InFlight : sellSettles(c)
  \/ \E c \in InFlight : simThrows(c)

Spec == Init /\ [][Next]_vars

\* The monitor started and never stopped: the invocations follow one another.
InitSeq == InitWith(DefaultConfig)

NextSeq ==
  \/ start
  \/ \E h \in timers : timerFires(h)
  \/ tick
  \/ \E c \in InFlight : fetchThrows(c)
  \/ \E c \in InFlight : fetchReturns(c, Feeds)
  \/ \E c \in InFlight : quoteSettles(c)
  \/ \E c \in InFlight : buySettles(c)
  \/ \E c \in InFlight : sellSettles(c)
  \/ \E c \in InFlight : simThrows(c)

SpecSeq == InitSeq /\ [][NextSeq]_vars

\* The responses of the price source of the monitor that simulates at two
\* sizes: no observation, one spread, or two spreads at once.
SimFeeds ==
  SchedFeeds \cup
  { Resp(<<Obs("ethereum", 100), Obs("arbitrum", 101), Obs("base", 100)>>, 0) }

\* The monitor started and never stopped, at one instant of the clock, with two
\* trade sizes: the simulations of every newly opened spread.
InitSim == InitWith([DefaultConfig EXCEPT !.simTradeSizes = <<5000, 10000>>])

NextSim ==
  \/ start
  \/ \E h \in timers : timerFires(h)
  \/ \E c \in InFlight : fetchThrows(c)
  \/ \E c \in InFlight : fetchReturns(c, SimFeeds)
  \/ \E c \in InFlight : quoteSettles(c)
  \/ \E c \in InFlight : buySettles(c)
  \/ \E c \in InFlight : sellSettles(c)
  \/ \E c \in InFlight : simThrows(c)

SpecSim == InitSim /\ [][NextSim]_vars

\* The monitor started and never stopped, at one instant of the clock, with
\* SIM_TRADE_SIZES=-5000,0,10000: sizes the configuration does not reject.
InitSizes == InitWith([DefaultConfig EXCEPT !.simTradeSizes = <<0 - 5000, 0, 10000>>])

NextSizes ==
  \/ start
  \/ \E h \in timers : timerFires(h)
  \/ \E c \in InFlight : fetchReturns(c, SchedFeeds)
  \/ \E c \in InFlight : quoteSettles(c)
  \/ \E c \in InFlight : buySettles(c)
  \/ \E c \in InFlight : sellSettles(c)

SpecSizes == InitSizes /\ [][NextSizes]_vars

\* an observation of a given trading pair
ObsOf(pair, chain, price) == [chain |-> chain, pair |-> pair, price |-> price]

\* The responses of the price source of the monitor that watches two pairs
\* (PAIRS=ETH/USDC,WBTC/USDC): no observation, a spread of one pair, or a
\* spread of each pair on different chains.
PairFeeds ==
  SchedFeeds \cup
  { Resp(<<ObsOf("ETH/USDC", "ethereum", 100), ObsOf("ETH/USDC", "base", 101),
           ObsOf("WBTC/USDC", "ethereum", 100), ObsOf("WBTC/USDC", "arbitrum", 101)>>, 0) }

\* The monitor of two trading pairs, started and never stopped, at one
\* instant of the clock.
NextPairs ==
  \/ start
  \/ \E h \in timers : timerFires(h)
  \/ \E c \in InFlight : fetchReturns(c, PairFeeds)
  \/ \E c \in InFlight : quoteSettles(c)
  \/ \E c \in InFlight : buySettles(c)
  \/ \E c \in InFlight : sellSettles(c)

SpecPairs == InitSeq /\ [][NextPairs]_vars

\* The responses of the price source of the monitor that runs over midnight:
\* no observation, one spread, or the same spread in the other direction.
DayFeeds ==
  SchedFeeds \cup { Resp(<<Obs("ethereum", 101), Obs("arbitrum", 100)>>, 0) }

\* The monitor started and never stopped, running from one UTC day into the
\* next.
NextDays ==
  \/ start
  \/ \E h \in timers : timerFires(h)
  \/ tick
  \/ midnight
  \/ \E c \in InFlight : fetchReturns(c, DayFeeds)
  \/ \E c \in InFlight : quoteSettles(c)
  \/ \E c \in InFlight : buySettles(c)
  \/ \E c \in InFlight : sellSettles(c)

SpecDays == InitSeq /\ [][NextDays]_vars

\* The scheduling alone, at one instant of the clock: the specification of the
\* liveness of the polling loop.
NextLive ==
  \/ start
  \/ stop
  \/ \E h \in timers : timerFires(h)
  \/ \E c \in InFlight :
       \/ fetchThrows(c)
       \/ fetchReturns(c, SchedFeeds)
       \/ quoteSettles(c)
       \/ buySettles(c)
       \/ sellSettles(c)
       \/ simThrows(c)

\* An armed timeout that stays armed fires (setTimeout).
Fairness == WF_vars(\E h \in timers : timerFires(h))

SpecLive == Init /\ [][NextLive]_vars /\ Fairness

\* -------------------------------------------------------------------- claims

IsOpen(r) == r.closed_at = NULL

OpenIds == {i \in 1..Len(db.spreads) : IsOpen(db.spreads[i])}

\* C1: at most one invocation of runCycle is in flight at any time.
C1_AtMostOneCycleInFlight == Cardinality(DOMAIN cycles) <= 1

\* C2: at most one timeout is armed, and none while an invocation is in flight.
C2_TimerOnlyAfterCycle ==
  /\ Cardinality(timers) <= 1
  /\ timers # {} => DOMAIN cycles = {}

\* C3: the store holds at most one open spread per (pair, buyChain, sellChain).
C3_OneOpenSpreadPerKey ==
  \A i \in OpenIds, j \in OpenIds :
     spreadKey(db.spreads[i]) = spreadKey(db.spreads[j]) => i = j

\* C4: no step changes or removes a row that is closed, and a reconcile that
\* detects a key whose rows are all closed inserts a new open row for it.
C4_ClosingIsTerminal ==
  [][ /\ Len(db'.spreads) >= Len(db.spreads)
      /\ \A i \in 1..Len(db.spreads) :
            ~IsOpen(db.spreads[i]) => db'.spreads[i] = db.spreads[i]
      /\ lastOp'.recon # NULL =>
           LET h == lastOp'.recon[1]
           IN  \A n \in 1..Len(h.detectedSpreads) :
                  LET k    == spreadKey(h.detectedSpreads[n])
                      rows == {i \in 1..Len(db.spreads) : spreadKey(db.spreads[i]) = k}
                  IN  (rows # {} /\ \A i \in rows : ~IsOpen(db.spreads[i]))
                      => \E j \in (Len(db.spreads) + 1)..Len(db'.spreads) :
                            /\ spreadKey(db'.spreads[j]) = k
                            /\ IsOpen(db'.spreads[j])
                            /\ db'.spreads[j].detected_at = h.nowMs
    ]_vars

\* C4 witness: a key was closed and detected again: a closed row and a later
\* open row of the same key.
C4_Witness ==
  \E i \in 1..Len(db.spreads), j \in OpenIds :
     /\ i < j
     /\ ~IsOpen(db.spreads[i])
     /\ spreadKey(db.spreads[i]) = spreadKey(db.spreads[j])

\* the exceptions runCycle lists: those of the price source, of the store while
\* the prices are persisted, of processSpreads and of a simulateTradesFn call
ListedKinds ==
  {"PriceSourceError", "StoreError", "ReconcileError", "Simulation error"}

\* C5 as claimed: an invocation resolves, and every exception raised inside it
\* is an entry of its error list.
C5_EveryExceptionListed ==
  lastOp.ret # NULL =>
    /\ lastOp.ret[1].outcome = "resolved"
    /\ \A i \in 1..Len(lastOp.ret[1].raised) :
          lastOp.ret[1].raised[i] \in Range(lastOp.ret[1].stats.errors)

\* C5 amended: an invocation resolves, and its error list is, in order, the
\* exceptions of the price source, of the price persistence, of processSpreads
\* and of the simulateTradesFn calls; a failed execution quote and a failed
\* insert of a simulated trade leave no entry.
C5_ListedExceptions ==
  lastOp.ret # NULL =>
    /\ lastOp.ret[1].outcome = "resolved"
    /\ lastOp.ret[1].stats.errors =
         SelectSeq(lastOp.ret[1].raised, LAMBDA k : k \in ListedKinds)

\* C5 witness: an invocation returned after an absorbed quote failure and a
\* listed simulator failure.
C5_Witness ==
  /\ lastOp.ret # NULL
  /\ "RefineQuoteError" \in Range(lastOp.ret[1].raised)
  /\ "Simulation error" \in Range(lastOp.ret[1].stats.errors)

\* C6: while the monitor stays running, an invocation that returned (with or
\* without errors) is followed by the start of another one, as long as the
\* model's budget of invocations lasts.
C6_BadCycleIsFollowed ==
  \A n \in 1..(MaxCycles - 1) :
     (lastOp.ret # NULL /\ running /\ started = n) ~> (~running \/ started > n)

\* C6 witness: an invocation that recorded an error returned while the monitor
\* runs, and its timeout is armed.
C6_Witness ==
  /\ lastOp.ret # NULL
  /\ lastOp.ret[1].stats.errors # <<>>
  /\ running
  /\ lastOp.c \in timers
  /\ started < MaxCycles

\* C7: while the monitor is stopped no invocation begins, except by start().
C7_NoCycleWhileStopped ==
  [][ (~running /\ started' > started) => lastOp'.op = "start" ]_vars

\* C8: start() on a running monitor changes nothing.
C8_StartWhileRunningIsNoOp ==
  [][ (running /\ lastOp'.op = "start")
        => UNCHANGED <<running, timer, timers, cycles, started, db>> ]_vars

\* C8 witness: start() was called on a running monitor with an invocation in
\* flight.
C8_Witness ==
  /\ lastOp.op = "start"
  /\ lastOp.logs = <<>>
  /\ running
  /\ DOMAIN cycles # {}

\* C9: the step in which fetchPrices throws returns stats with priceCount 0 and
\* one error, writes nothing to the store and has requested no execution quote.
C9_PriceFailureSkipsCycle ==
  [][ lastOp'.op = "fetchThrows" =>
        /\ db' = db
        /\ lastOp'.ret # NULL
        /\ lastOp'.ret[1].outcome = "resolved"
        /\ lastOp'.ret[1].stats.priceCount = 0
        /\ Len(lastOp'.ret[1].stats.errors) = 1
        /\ lastOp'.ret[1].reqs = <<>> ]_vars

\* C9 witness: fetchPrices threw while the store held an open spread.
C9_Witness ==
  /\ lastOp.op = "fetchThrows"
  /\ OpenIds # {}

\* C10: a reconcile at nowMs closes exactly the open rows whose key is not
\* detected, with closed_at = nowMs and the rounded duration, lists exactly
\* those as closed and leaves every other existing row as it was.
C10_ReconcileCloses ==
  [][ lastOp'.recon # NULL =>
        LET h    == lastOp'.recon[1]
            keys == {spreadKey(h.detectedSpreads[n]) : n \in 1..Len(h.detectedSpreads)}
            gone == {i \in 1..Len(db.spreads) :
                       IsOpen(db.spreads[i]) /\ spreadKey(db.spreads[i]) \notin keys}
        IN  /\ \A i \in 1..Len(db.spreads) :
                  IF i \in gone
                  THEN LET r == db'.spreads[i]
                           x == h.nowMs - db.spreads[i].detected_at
                       IN  /\ r.closed_at = <<h.nowMs>>
                           /\ Len(r.duration_seconds) = 1
                           /\ 1000 * r.duration_seconds[1] - 500 <= x
                           /\ x < 1000 * r.duration_seconds[1] + 500
                           /\ [r EXCEPT !.closed_at = NULL, !.duration_seconds = NULL]
                                = db.spreads[i]
                           /\ r \in Range(h.closedSpreads)
                  ELSE db'.spreads[i] = db.spreads[i]
            /\ {h.closedSpreads[n].id : n \in 1..Len(h.closedSpreads)} = gone
            /\ Len(h.closedSpreads) = Cardinality(gone) ]_vars

\* C10 witness: a reconcile closed a row after 1500 ms (duration 2) and kept
\* open an older row whose key was detected again.
C10_Witness ==
  /\ lastOp.recon # NULL
  /\ \E n \in 1..Len(lastOp.recon[1].closedSpreads) :
        lastOp.recon[1].closedSpreads[n].duration_seconds = <<2>>
  /\ \E i \in OpenIds : db.spreads[i].detected_at < lastOp.recon[1].nowMs

\* C11: a reconcile repeated at once with the same candidates (at any time)
\* opens no spread, closes none and leaves the store as the first call left it.
C11_ReconcileIdempotent ==
  [][ lastOp'.recon # NULL =>
        \A t \in Range(ClockVals) :
           LET r2 == processSpreads(db', lastOp'.recon[1].detectedSpreads, t)
           IN  /\ r2.newSpreads = <<>>
               /\ r2.closedSpreads = <<>>
               /\ r2.db = db' ]_vars

\* C11 witness: the monitor reconciled twice in a row with the same candidate:
\* the second call opened and closed nothing, and the candidate's row is the
\* one an earlier call opened.
C11_Witness ==
  /\ lastOp.recon # NULL
  /\ lastOp.recon[1].detectedSpreads # <<>>
  /\ lastOp.recon[1].newSpreads = <<>>
  /\ lastOp.recon[1].closedSpreads = <<>>
  /\ \A n \in 1..Len(lastOp.recon[1].detectedSpreads) :
        \E i \in OpenIds :
           /\ spreadKey(db.spreads[i]) = spreadKey(lastOp.recon[1].detectedSpreads[n])
           /\ db.spreads[i].detected_at < lastOp.recon[1].nowMs
           /\ db.spreads[i].buy_price = lastOp.recon[1].detectedSpreads[n].buyPrice
           /\ db.spreads[i].sell_price = lastOp.recon[1].detectedSpreads[n].sellPrice

\* C12: an invocation whose prices were fetched and stored, that found no
\* candidate and raised nothing, reconciles against the empty candidate set:
\* every row of the store is closed when it returns, and no row is added.
C12_NoCandidateStillCloses ==
  [][ (/\ lastOp'.op = "fetchReturns"
       /\ lastOp'.ret # NULL
       /\ lastOp'.ret[1].stats.errors = <<>>)
      => /\ lastOp'.recon # NULL
         /\ lastOp'.recon[1].detectedSpreads = <<>>
         /\ Len(db'.spreads) = Len(db.spreads)
         /\ \A i \in 1..Len(db.spreads) :
               /\ ~IsOpen(db'.spreads[i])
               /\ IsOpen(db.spreads[i]) =>
                    db'.spreads[i].closed_at = <<lastOp'.recon[1].nowMs>> ]_vars

\* C12 witness: prices were fetched, none of them a candidate, and the invocation
\* closed a spread that was open.
C12_Witness ==
  /\ lastOp.op = "fetchReturns"
  /\ lastOp.ret # NULL
  /\ lastOp.ret[1].stats.priceCount > 0
  /\ lastOp.ret[1].stats.errors = <<>>
  /\ lastOp.recon # NULL
  /\ lastOp.recon[1].closedSpreads # <<>>

Reversed(r, d) ==
  /\ r.pair = d.pair
  /\ r.buy_chain = d.sellChain
  /\ r.sell_chain = d.buyChain

\* the row r has the direction of the candidate d
SameDirection(r, d) ==
  /\ r.pair = d.pair
  /\ r.buy_chain = d.buyChain
  /\ r.sell_chain = d.sellChain

\* a reconcile receives the candidate d while row i is open in the other
\* direction, and no row is open in the direction of d
FlipSeen(d, i) ==
  /\ IsOpen(db.spreads[i])
  /\ Reversed(db.spreads[i], d)
  /\ \A k \in 1..Len(db.spreads) :
        IsOpen(db.spreads[k]) => ~SameDirection(db.spreads[k], d)

\* the step added an open row in the direction of d, detected at nowMs
FlipOpened(d, nowMs) ==
  \E j \in (Len(db.spreads) + 1)..Len(db'.spreads) :
     /\ SameDirection(db'.spreads[j], d)
     /\ IsOpen(db'.spreads[j])
     /\ db'.spreads[j].detected_at = nowMs

\* C14 as claimed: the reconcile that sees the reversed candidate adds a row
\* under the reversed key and leaves the old-direction row open and unchanged.
C14_FlipLeavesOldOpen ==
  [][ lastOp'.recon # NULL =>
        \A n \in 1..Len(lastOp'.recon[1].detectedSpreads), i \in 1..Len(db.spreads) :
           FlipSeen(lastOp'.recon[1].detectedSpreads[n], i)
           => /\ FlipOpened(lastOp'.recon[1].detectedSpreads[n], lastOp'.recon[1].nowMs)
              /\ db'.spreads[i] = db.spreads[i] ]_vars

\* C14 amended: the reconcile that sees the reversed candidate adds a row under
\* the reversed key, does not rewrite the old-direction row, and closes that
\* row in the same call, at the same nowMs.
C14_FlipOpensNewClosesOld ==
  [][ lastOp'.recon # NULL =>
        \A n \in 1..Len(lastOp'.recon[1].detectedSpreads), i \in 1..Len(db.spreads) :
           FlipSeen(lastOp'.recon[1].detectedSpreads[n], i)
           => /\ FlipOpened(lastOp'.recon[1].detectedSpreads[n], lastOp'.recon[1].nowMs)
              /\ db'.spreads[i].closed_at = <<lastOp'.recon[1].nowMs>>
              /\ [db'.spreads[i] EXCEPT !.closed_at = NULL,
                                        !.duration_seconds = NULL] = db.spreads[i]
    ]_vars

\* C14 witness: a reconcile opened a row in one direction and closed, at the
\* same time, the row of the other direction that an earlier cycle had opened.
C14_Witness ==
  /\ lastOp.recon # NULL
  /\ \E i \in 1..Len(db.spreads), j \in OpenIds :
        /\ i < j
        /\ db.spreads[i].pair = db.spreads[j].pair
        /\ db.spreads[i].buy_chain = db.spreads[j].sell_chain
        /\ db.spreads[i].sell_chain = db.spreads[j].buy_chain
        /\ db.spreads[i].closed_at = <<lastOp.recon[1].nowMs>>
        /\ db.spreads[j].detected_at = lastOp.recon[1].nowMs
        /\ db.spreads[i].detected_at < lastOp.recon[1].nowMs

TradesOf(id, size) ==
  {a \in 1..Len(db.simTrades) :
     /\ db.simTrades[a].spread_id = id
     /\ db.simTrades[a].trade_size_usd = size}

\* C16: every simulateTrades call of a returned invocation gave one result per
\* configured size, in the order of the sizes; a buy request was made for every
\* size; a failed size has {success, size, error} and no stored trade; a
\* successful size has its trade stored.
C16_OneResultPerSize ==
  lastOp.ret # NULL =>
    \A s \in 1..Len(lastOp.ret[1].sims) :
       LET sim == lastOp.ret[1].sims[s]
       IN  ~sim.threw =>
             /\ Len(sim.results) = Len(config.simTradeSizes)
             /\ \A k \in 1..Len(config.simTradeSizes) :
                   LET r == sim.results[k]
                   IN  /\ r.size = config.simTradeSizes[k]
                       /\ \E q \in 1..Len(lastOp.ret[1].reqs) :
                             /\ lastOp.ret[1].reqs[q].kind = "buy"
                             /\ lastOp.ret[1].reqs[q].amount = config.simTradeSizes[k]
                             /\ lastOp.ret[1].reqs[q].chain =
                                  db.spreads[sim.spread_id].buy_chain
                       /\ IF r.success
                          THEN /\ DOMAIN r = {"success", "size", "trade"}
                               /\ r.trade.spread_id = sim.spread_id
                               /\ r.trade.trade_size_usd = r.size
                               /\ \E a \in TradesOf(sim.spread_id, r.size) :
                                     db.simTrades[a] = r.trade
                          ELSE /\ DOMAIN r = {"success", "size", "error"}
                               /\ TradesOf(sim.spread_id, r.size) = {}

\* C16 witness: the quote of the first size failed, and the second size was
\* simulated and stored.
C16_Witness ==
  /\ lastOp.ret # NULL
  /\ \E s \in 1..Len(lastOp.ret[1].sims) :
        LET sim == lastOp.ret[1].sims[s]
        IN  /\ ~sim.threw
            /\ Len(sim.results) = 2
            /\ ~sim.results[1].success
            /\ sim.results[1].error = "SimQuoteError"
            /\ sim.results[2].success
            /\ TradesOf(sim.spread_id, sim.results[2].size) # {}

\* C17: a returned invocation called the simulator once for every spread it
\* opened, in order, whether or not an earlier call raised; it recorded one
\* cycle error per call that raised, and the calls that did not raise ran to
\* their results.
C17_SimulatorErrorIsolated ==
  lastOp.ret # NULL =>
    LET ret == lastOp.ret[1]
    IN  /\ Len(ret.sims) = Len(ret.newSpreads)
        /\ \A n \in 1..Len(ret.sims) :
              /\ ret.sims[n].spread_id = ret.newSpreads[n].id
              /\ ~ret.sims[n].threw =>
                    Len(ret.sims[n].results) = Len(config.simTradeSizes)
        /\ Cardinality({n \in 1..Len(ret.sims) : ret.sims[n].threw})
             = Cardinality({e \in 1..Len(ret.stats.errors) :
                              ret.stats.errors[e] = "Simulation error"})

\* C17 witness: two spreads were opened, the simulator raised for the first,
\* and the second was simulated with success.
C17_Witness ==
  /\ lastOp.ret # NULL
  /\ Len(lastOp.ret[1].sims) = 2
  /\ lastOp.ret[1].sims[1].threw
  /\ ~lastOp.ret[1].sims[2].threw
  /\ \E k \in 1..Len(lastOp.ret[1].sims[2].results) :
        lastOp.ret[1].sims[2].results[k].success
  /\ lastOp.ret[1].stats.errors = <<"Simulation error">>

\* the requests and the raised exceptions of invocation c after the step that
\* c took (c is still in flight, or has returned in this step)
ReqsAfter(c) ==
  IF c \in DOMAIN cycles' THEN cycles'[c].reqs ELSE lastOp'.ret[1].reqs

RaisedAfter(c) ==
  IF c \in DOMAIN cycles' THEN cycles'[c].raised ELSE lastOp'.ret[1].raised

\* C18: a step in which a leg's quote settles issues at most one new request.
\* When the buy quote returned, it is the sell request, on the spread's
\* sellChain, for the tokens bought; when the buy quote failed, no sell request
\* is made.  A buy request of the next size is made only in the step that
\* finishes the size before it.
C18_LegsAndSizesSequential ==
  [][ lastOp'.op \in {"buySettles", "sellSettles"} =>
        LET c      == lastOp'.c
            old    == cycles[c]
            spread == old.newSpreads[old.simIdx]
            new    == ReqsAfter(c)
            failed == Len(RaisedAfter(c)) > Len(old.raised)
        IN  /\ old.reqs[Len(old.reqs)].kind = old.leg
            /\ \/ new = old.reqs
               \/ /\ Len(new) = Len(old.reqs) + 1
                  /\ SubSeq(new, 1, Len(old.reqs)) = old.reqs
            /\ (lastOp'.op = "buySettles" /\ ~failed) =>
                  /\ c \in DOMAIN cycles'
                  /\ Len(new) = Len(old.reqs) + 1
                  /\ new[Len(new)] =
                       QuoteReq("sell", spread.sellChain, spread.pair,
                                cycles'[c].buy[1].tokensBought)
                  /\ Len(cycles'[c].results) = Len(old.results)
            /\ (lastOp'.op = "sellSettles" \/ failed) =>
                  \A q \in (Len(old.reqs) + 1)..Len(new) :
                     /\ new[q].kind = "buy"
                     /\ c \in DOMAIN cycles'
                     /\ \/ /\ cycles'[c].simIdx = old.simIdx
                           /\ cycles'[c].sizeIdx = old.sizeIdx + 1
                           /\ Len(cycles'[c].results) = old.sizeIdx
                           /\ new[q].amount = config.simTradeSizes[old.sizeIdx + 1]
                           /\ new[q].chain = spread.buyChain
                        \/ /\ cycles'[c].simIdx = old.simIdx + 1
                           /\ old.sizeIdx = Len(config.simTradeSizes)
                           /\ new[q].amount = config.simTradeSizes[1]
    ]_vars

\* C18 witness: at the second size, after the first size has finished, the buy
\* quote returned and the sell request is out for the tokens bought.
C18_Witness ==
  /\ lastOp.op = "buySettles"
  /\ lastOp.c \in DOMAIN cycles
  /\ LET rec == cycles[lastOp.c]
     IN  /\ rec.leg = "sell"
         /\ rec.sizeIdx = 2
         /\ Len(rec.results) = 1
         /\ rec.reqs[Len(rec.reqs)].kind = "sell"
         /\ rec.reqs[Len(rec.reqs)].amount = rec.buy[1].tokensBought
         /\ rec.reqs[Len(rec.reqs)].amount # config.simTradeSizes[2]

\* the chains of the configuration (config.chains)
Chains == {"ethereum", "arbitrum", "base"}

\* C19: the step in which a refinement quote fails records no cycle error and
\* goes on with gas cost 0 for that chain: it requests the quote of the next
\* involved chain, or, after the last chain, detects again with the gas costs
\* collected (0 for the failed chain), reconciles with those candidates and
\* enters the simulation of the first spread opened.
C19_FailedRefinementQuoteDefaultsToZero ==
  [][ (/\ lastOp'.op = "quoteSettles"
       /\ Len(RaisedAfter(lastOp'.c)) > Len(cycles[lastOp'.c].raised)
       /\ RaisedAfter(lastOp'.c)[Len(cycles[lastOp'.c].raised) + 1] = "RefineQuoteError")
      => LET c     == lastOp'.c
             old   == cycles[c]
             chain == old.todo[1]
             g0    == [ch \in (DOMAIN old.gasCosts) \cup {chain} |->
                         IF ch = chain THEN 0 ELSE old.gasCosts[ch]]
         IN  IF Len(old.todo) > 1
             THEN /\ c \in DOMAIN cycles'
                  /\ cycles'[c].pc = "quote"
                  /\ cycles'[c].gasCosts = g0
                  /\ cycles'[c].todo = Tail(old.todo)
                  /\ cycles'[c].reqs =
                       Append(old.reqs, QuoteReq("refine", old.todo[2],
                                                 old.detected[1].pair,
                                                 ReferenceTradeSize))
                  /\ cycles'[c].stats.errors = old.stats.errors
             ELSE \/ "ReconcileError" \in Range(RaisedAfter(c))
                  \/ /\ lastOp'.recon # NULL
                     /\ lastOp'.recon[1].detectedSpreads =
                          detectSpreads(old.prices, g0, config.minGrossSpreadPct,
                                        config.minNetSpreadPct, ReferenceTradeSize)
                     /\ IF lastOp'.recon[1].newSpreads # <<>>
                        THEN /\ c \in DOMAIN cycles'
                             /\ cycles'[c].pc = "sim"
                             /\ cycles'[c].stats.errors = old.stats.errors
                             /\ cycles'[c].reqs[Len(cycles'[c].reqs)] =
                                  QuoteReq("buy",
                                           lastOp'.recon[1].newSpreads[1].buyChain,
                                           lastOp'.recon[1].newSpreads[1].pair,
                                           config.simTradeSizes[1])
                        ELSE /\ lastOp'.ret # NULL
                             /\ lastOp'.ret[1].stats.errors = old.stats.errors
    ]_vars

\* C19 witness: an invocation returned without error after the first of its
\* refinement quotes failed: it asked the quotes of the other chains and
\* simulated a spread with success.
C19_Witness ==
  /\ lastOp.ret # NULL
  /\ lastOp.ret[1].raised # <<>>
  /\ lastOp.ret[1].raised[1] = "RefineQuoteError"
  /\ lastOp.ret[1].stats.errors = <<>>
  /\ lastOp.ret[1].stats.simulated >= 1
  /\ Cardinality({q \in 1..Len(lastOp.ret[1].reqs) :
                    lastOp.ret[1].reqs[q].kind = "refine"}) >= 2

\* the candidate b is the candidate a with a net spread that is no lower
SameButNet(a, b) ==
  /\ [b EXCEPT !.netSpreadPct = a.netSpreadPct] = a
  /\ RatLeq(a.netSpreadPct, b.netSpreadPct)

\* C20: for the prices the store holds after a fetch, for every map G of gas
\* costs and every chain: each candidate detectSpreads returns under G is
\* returned, with a net spread no lower, when the cost of the chain is 0.
C20_ZeroGasNeverFilters ==
  lastOp.op = "fetchReturns" =>
    \A G \in [Chains -> GasVals], ch \in Chains :
       LET a == detectSpreads(db.prices, G, config.minGrossSpreadPct,
                              config.minNetSpreadPct, ReferenceTradeSize)
           b == detectSpreads(db.prices, [G EXCEPT ![ch] = 0],
                              config.minGrossSpreadPct, config.minNetSpreadPct,
                              ReferenceTradeSize)
       IN  \A i \in 1..Len(a) : \E j \in 1..Len(b) : SameButNet(a[i], b[j])

\* C20 witness: the stored prices give a candidate under a map that charges one
\* of its chains, and a strictly higher net spread once that cost is 0.
C20_Witness ==
  /\ lastOp.op = "fetchReturns"
  /\ \E G \in [Chains -> GasVals], ch \in Chains :
        LET a == detectSpreads(db.prices, G, config.minGrossSpreadPct,
                               config.minNetSpreadPct, ReferenceTradeSize)
            b == detectSpreads(db.prices, [G EXCEPT ![ch] = 0],
                               config.minGrossSpreadPct, config.minNetSpreadPct,
                               ReferenceTradeSize)
        IN  /\ G[ch] > 0
            /\ \E i \in 1..Len(a), j \in 1..Len(b) :
                  /\ ch \in {a[i].buyChain, a[i].sellChain}
                  /\ SameButNet(a[i], b[j])
                  /\ RatLess(a[i].netSpreadPct, b[j].netSpreadPct)

\* ------------------------------------- the exported functions, called directly

\* Longest price list passed to detectSpreads.
MaxObs == 3

\* the prices of the direct calls: negative, zero, and two positive ones
PriceVals == {0 - 1, 0, 100, 102}

\* the trading pairs of the configuration (config.pairs)
Pairs == {"ETH/USDC", "WBTC/USDC"}

\* (minGrossSpreadPct, minNetSpreadPct): the defaults, and both set to 0
Thresholds == { <<DefaultMinGross, DefaultMinNet>>, <<Zero, Zero>> }

\* the price lists of the direct calls
PriceLists ==
  UNION { [1..n -> [chain : Chains, pair : Pairs, price : PriceVals]] : n \in 0..MaxObs }

\* the gas maps of the direct calls: a chain is missing, or costs 150
GasMaps == UNION { [D -> {150}] : D \in SUBSET Chains }

\* the history of a direct call of an exported function
Call(op, args, result) ==
  [op |-> op, c |-> 0, logs |-> <<>>, recon |-> NULL,
   ret |-> <<[args |-> args, result |-> result]>>]

\* ------------------------------------- the quote adapters (fetchFn injected)

\* CHAIN_IDS: the chains with a chain id
CHAIN_IDS == {"ethereum", "arbitrum", "base"}

\* TOKEN_ADDRESSES[chain]: the registry names with an address on the chain
\* (WBTC is null on base)
TOKEN_ADDRESSES ==
  [chain \in CHAIN_IDS |->
     IF chain = "base" THEN {"WETH", "USDC"} ELSE {"WETH", "USDC", "WBTC"}]

\* TOKEN_DECIMALS: the registry names with known decimals
TOKEN_DECIMALS == {"WETH", "USDC", "WBTC"}

\* registryName / mapPairTokenToRegistry
registryName(token) ==
  CASE token = "ETH" -> "WETH"
    [] token = "BTC" -> "WBTC"
    [] OTHER         -> token

\* what fetchFn and response.json() do with one request: fetchFn rejects
\* (fetch = "AbortError" when the timeout aborted it, "TypeError" for any
\* other failure) or resolves to a response with a status, whose body then
\* parses to the expected shape ("valid"), parses to JSON without it
\* ("unexpected"), fails to parse ("SyntaxError"), or fails to arrive because
\* the timeout aborts the read ("AbortError") or the connection drops
\* ("TypeError")
NetOutcomes ==
  { [fetch |-> f, status |-> 0, body |-> "none"] : f \in {"AbortError", "TypeError"} }
  \cup [fetch : {"response"}, status : {200, 404, 429, 500},
        body : {"valid", "unexpected", "SyntaxError", "AbortError", "TypeError"}]

\* the outcome of an adapter call: the requests it issued and either the
\* error it threw or the value it returned
Threw(requests, code, status) ==
  [requests |-> requests, threw |-> <<[code |-> code, status |-> status]>>,
   value |-> NULL]

Returned(requests, value) ==
  [requests |-> requests, threw |-> NULL, value |-> <<value>>]

\* the try / catch / finally around fetchFn shared by the two adapters, up to
\* the parsed JSON: the error thrown, or NULL when data is in hand
RequestError(net) ==
  IF net.fetch # "response"
  THEN IF net.fetch = "AbortError" THEN Threw(1, "TIMEOUT", NULL)
       ELSE Threw(1, "NETWORK_ERROR", NULL)
  ELSE IF net.status = 429 THEN Threw(1, "RATE_LIMITED", NULL)
  ELSE IF ~(net.status >= 200 /\ net.status <= 299)
       THEN Threw(1, "HTTP_ERROR", <<net.status>>)
  ELSE IF net.body \in {"SyntaxError", "AbortError", "TypeError"}
       THEN Threw(1, "MALFORMED_RESPONSE", NULL)
  ELSE NULL

\* fetchQuote that looks no token up before it sends the request
fetchQuoteUnchecked(chain, srcToken, destToken, net) ==
  IF chain \notin CHAIN_IDS THEN Threw(0, "INVALID_CHAIN", NULL)
  ELSE IF RequestError(net) # NULL THEN RequestError(net)
  ELSE IF net.body = "unexpected" THEN Threw(1, "MALFORMED_RESPONSE", NULL)
  ELSE Returned(1, [chain |-> chain, srcToken |-> registryName(srcToken),
                    destToken |-> registryName(destToken)])

\* fetchQuote
fetchQuote(chain, srcToken, destToken, net) ==
  IF chain \notin CHAIN_IDS THEN Threw(0, "INVALID_CHAIN", NULL)
  ELSE IF chain \notin DOMAIN TOKEN_ADDRESSES THEN Threw(0, "INVALID_CHAIN", NULL)
  ELSE IF registryName(srcToken) \notin TOKEN_ADDRESSES[chain]
       THEN Threw(0, "INVALID_TOKEN", NULL)
  ELSE IF registryName(destToken) \notin TOKEN_ADDRESSES[chain]
       THEN Threw(0, "INVALID_TOKEN", NULL)
  ELSE IF \/ registryName(srcToken) \notin TOKEN_DECIMALS
          \/ registryName(destToken) \notin TOKEN_DECIMALS
       THEN Threw(0, "INVALID_TOKEN", NULL)
  ELSE IF RequestError(net) # NULL THEN RequestError(net)
  ELSE IF net.body = "unexpected" THEN Threw(1, "MALFORMED_RESPONSE", NULL)
  ELSE Returned(1, [chain |-> chain, srcToken |-> registryName(srcToken),
                    destToken |-> registryName(destToken)])

\* buildCoinKeys: one key per chain and base token with an address
buildCoinKeys(chains, bases) ==
  { <<chains[i], registryName(b)>> : i \in 1..Len(chains), b \in bases }
  \cap { k \in CHAIN_IDS \X TOKEN_DECIMALS : k[2] \in TOKEN_ADDRESSES[k[1]] }

\* fetchPrices
fetchPrices(chains, bases, net) ==
  IF buildCoinKeys(chains, bases) = {}
  THEN Returned(0, [prices |-> {}, stale |-> {}])
  ELSE IF RequestError(net) # NULL THEN RequestError(net)
  ELSE IF net.body = "unexpected" THEN Returned(1, [prices |-> {}, stale |-> {}])
  ELSE Returned(1, [prices |-> buildCoinKeys(chains, bases), stale |-> {}])

\* the arguments of a direct call that has not been made yet
Pending(fn, args) == Call("pending", [fn |-> fn, args |-> args], NULL)

\* the arguments a caller may pass to calculateGrossSpread
GrossSpreadArgs ==
  { <<a, "ethereum", b, "arbitrum">> : a \in PriceVals, b \in PriceVals }

\* the arguments a caller may pass to detectSpreads (referenceTradeSize 10000)
DetectSpreadsArgs ==
  { [prices |-> prices, gasCosts |-> gasCosts,
     minGrossSpreadPct |-> th[1], minNetSpreadPct |-> th[2]] :
       prices \in PriceLists, gasCosts \in GasMaps, th \in Thresholds }

\* the arguments a caller may pass to fetchQuote, with what the network does:
\* a chain without a chain id, tokens without an address, and valid ones
FetchQuoteArgs ==
  [chain : {"ethereum", "base", "polygon"},
   srcToken : {"USDC", "ETH", "BTC", "DOGE"},
   destToken : {"USDC", "ETH", "BTC", "DOGE"},
   net : NetOutcomes]

\* the arguments a caller may pass to fetchPrices, with what the network does
FetchPricesArgs ==
  [chains : {<<>>, <<"polygon">>, <<"ethereum", "arbitrum">>, <<"base">>},
   bases : {{"ETH", "BTC"}, {"BTC"}},
   net : NetOutcomes]

\* the call that is pending was made for function fn
IsPending(fn) == lastOp.op = "pending" /\ lastOp.ret[1].args.fn = fn

\* a caller evaluates calculateGrossSpread(priceA, chainA, priceB, chainB)
callCalculateGrossSpread ==
  /\ IsPending("calculateGrossSpread")
  /\ LET a == lastOp.ret[1].args.args
     IN  lastOp' = Call("calculateGrossSpread", a,
                        calculateGrossSpread(a[1], a[2], a[3], a[4]))
  /\ UNCHANGED <<running, timer, timers, cycles, started, db, clock, config>>

\* a caller evaluates detectSpreads({prices, gasCosts, minGrossSpreadPct,
\* minNetSpreadPct, referenceTradeSize})
callDetectSpreads ==
  /\ IsPending("detectSpreads")
  /\ LET a == lastOp.ret[1].args.args
     IN  lastOp' = Call("detectSpreads", a,
                        detectSpreads(a.prices, a.gasCosts, a.minGrossSpreadPct,
                                      a.minNetSpreadPct, ReferenceTradeSize))
  /\ UNCHANGED <<running, timer, timers, cycles, started, db, clock, config>>

\* a caller awaits fetchQuote({chain, srcToken, destToken, amount, fetchFn})
callFetchQuote ==
  /\ IsPending("fetchQuote")
  /\ LET a == lastOp.ret[1].args.args
     IN  lastOp' = Call("fetchQuote", a,
                        fetchQuote(a.chain, a.srcToken, a.destToken, a.net))
  /\ UNCHANGED <<running, timer, timers, cycles, started, db, clock, config>>

\* a caller awaits fetchPrices({chains, pairs, fetchFn})
callFetchPrices ==
  /\ IsPending("fetchPrices")
  /\ LET a == lastOp.ret[1].args.args
     IN  lastOp' = Call("fetchPrices", a, fetchPrices(a.chains, a.bases, a.net))
  /\ UNCHANGED <<running, timer, timers, cycles, started, db, clock, config>>

\* one call of an exported function is pending, its arguments drawn from the
\* sets above; nothing else has happened
InitPure ==
  /\ running = FALSE /\ timer = NULL /\ timers = {} /\ cycles = <<>>
  /\ started = 0 /\ db = EmptyDb /\ clock = 1
  /\ config = DefaultConfig
  /\ \/ \E a \in GrossSpreadArgs   : lastOp = Pending("calculateGrossSpread", a)
     \/ \E a \in DetectSpreadsArgs : lastOp = Pending("detectSpreads", a)
     \/ \E a \in FetchQuoteArgs    : lastOp = Pending("fetchQuote", a)
     \/ \E a \in FetchPricesArgs   : lastOp = Pending("fetchPrices", a)

NextPure ==
  \/ callCalculateGrossSpread
  \/ callDetectSpreads
  \/ callFetchQuote
  \/ callFetchPrices

\* The exported functions applied to inputs drawn from the sets above.
SpecPure == InitPure /\ [][NextPure]_vars

\* C21: every candidate detectSpreads returns has buyPrice <= sellPrice.
C21_BuyPriceAtMostSellPrice ==
  lastOp.op = "detectSpreads" =>
    \A i \in 1..Len(lastOp.ret[1].result) :
       lastOp.ret[1].result[i].buyPrice <= lastOp.ret[1].result[i].sellPrice

\* C22: calculateGrossSpread with a lower price <= 0 returns grossSpreadPct 0,
\* buyPrice the lower and sellPrice the higher price, and the chain of the
\* lower price as buyChain, whichever operand comes first.
C22_NonPositiveLowFollowsMinMax ==
  (lastOp.op = "calculateGrossSpread"
   /\ Min(lastOp.ret[1].args[1], lastOp.ret[1].args[3]) <= 0)
  => LET a == lastOp.ret[1].args[1]
         b == lastOp.ret[1].args[3]
         r == lastOp.ret[1].result
     IN  /\ r.grossSpreadPct = Zero
         /\ r.buyPrice = Min(a, b)
         /\ r.sellPrice = Max(a, b)
         /\ a < b => (r.buyChain = lastOp.ret[1].args[2] /\ r.sellChain = lastOp.ret[1].args[4])
         /\ b < a => (r.buyChain = lastOp.ret[1].args[4] /\ r.sellChain = lastOp.ret[1].args[2])

\* the chains quoted for trading pair p in a price list
QuotedChains(prices, p) ==
  { prices[i].chain : i \in { j \in 1..Len(prices) : prices[j].pair = p } }

\* the price of chain x for trading pair p in a price list
QuotedPrice(prices, p, x) ==
  prices[CHOOSE i \in 1..Len(prices) :
           prices[i].pair = p /\ prices[i].chain = x].price

\* the unordered pair {x, y} of chains clears both thresholds for pair p
Qualifies(a, p, x, y) ==
  LET g   == calculateGrossSpread(QuotedPrice(a.prices, p, x), x,
                                  QuotedPrice(a.prices, p, y), y).grossSpreadPct
      gas == (IF x \in DOMAIN a.gasCosts THEN a.gasCosts[x] ELSE 0)
             + (IF y \in DOMAIN a.gasCosts THEN a.gasCosts[y] ELSE 0)
      net == RatSub(g, Rat(gas * 100, ReferenceTradeSize))
  IN  /\ RatLeq(a.minGrossSpreadPct, g)
      /\ RatLeq(a.minNetSpreadPct, net)

\* C23: detectSpreads returns exactly one candidate for each unordered pair of
\* distinct chains quoted for the same trading pair that clears both
\* thresholds, and nothing else.
C23_OneCandidatePerQualifyingPair ==
  lastOp.op = "detectSpreads" =>
    LET a == lastOp.ret[1].args
        r == lastOp.ret[1].result
        Of(p, x, y) == { i \in 1..Len(r) : /\ r[i].pair = p
                                           /\ {r[i].buyChain, r[i].sellChain} = {x, y} }
    IN  /\ \A i \in 1..Len(r) :
              /\ r[i].buyChain # r[i].sellChain
              /\ {r[i].buyChain, r[i].sellChain} \subseteq QuotedChains(a.prices, r[i].pair)
        /\ \A p \in Pairs : \A x \in QuotedChains(a.prices, p) :
             \A y \in QuotedChains(a.prices, p) \ {x} :
                Cardinality(Of(p, x, y)) = IF Qualifies(a, p, x, y) THEN 1 ELSE 0

\* C24: for prices a, b > 0, calculateGrossSpread(a, A, b, B) returns
\* grossSpreadPct = (max - min) / min * 100 >= 0, which is 0 when a = b, with
\* buyChain the chain of the lower price (A on a tie) and sellChain the other.
C24_GrossSpreadOfPositivePrices ==
  (lastOp.op = "calculateGrossSpread"
   /\ lastOp.ret[1].args[1] > 0 /\ lastOp.ret[1].args[3] > 0)
  => LET a == lastOp.ret[1].args[1]
         b == lastOp.ret[1].args[3]
         g == lastOp.ret[1].result.grossSpreadPct
         r == lastOp.ret[1].result
     IN  /\ g[2] > 0 /\ g[1] >= 0
         /\ g[1] * Min(a, b) = (Max(a, b) - Min(a, b)) * 100 * g[2]
         /\ a = b => g[1] = 0
         /\ r.buyChain = (IF a <= b THEN lastOp.ret[1].args[2] ELSE lastOp.ret[1].args[4])
         /\ r.sellChain = (IF a <= b THEN lastOp.ret[1].args[4] ELSE lastOp.ret[1].args[2])

\* the second operand is the cheaper one: it buys, at a spread of 2 %
C24_Witness ==
  /\ lastOp.op = "calculateGrossSpread"
  /\ lastOp.ret[1].args = <<102, "ethereum", 100, "arbitrum">>
  /\ lastOp.ret[1].result.buyChain = "arbitrum"
  /\ lastOp.ret[1].result.sellChain = "ethereum"
  /\ lastOp.ret[1].result.grossSpreadPct = <<2, 1>>

\* C25: every stored spread row carries a high-friction flag, set exactly when
\* its buy chain or its sell chain is ethereum.
C25_StoredRowFlagsEthereumLeg ==
  \A i \in 1..Len(db.spreads) :
     /\ "high_friction" \in DOMAIN db.spreads[i]
     /\ db.spreads[i].high_friction =
          (db.spreads[i].buy_chain = "ethereum" \/ db.spreads[i].sell_chain = "ethereum")

\* the stored spreads detected in the UTC day that contains nowMs
DetectedOnDayOf(d, nowMs) ==
  { i \in 1..Len(d.spreads) :
      d.spreads[i].detected_at \div DayMs = nowMs \div DayMs }

\* C26: after a reconcile at time now that opened a spread, the statistics row
\* of the UTC date of now has total_spreads equal to the number of stored
\* spreads detected in that UTC day; a reconcile that opened none leaves every
\* statistics row as it was.
C26_DailyStatsRecounted ==
  [][ lastOp'.recon # NULL =>
        LET now  == lastOp'.recon[1].nowMs
            date == todayDateStr(now)
        IN  IF lastOp'.recon[1].newSpreads # <<>>
            THEN /\ date \in DOMAIN db'.dailyStats
                 /\ db'.dailyStats[date].total_spreads
                      = Cardinality(DetectedOnDayOf(db', now))
            ELSE db'.dailyStats = db.dailyStats ]_vars

\* C26 witness: a reconcile of the second day opened a spread while the store
\* holds one of the first day; the second day's row counts one spread.
C26_Witness ==
  /\ lastOp.recon # NULL
  /\ lastOp.recon[1].newSpreads # <<>>
  /\ todayDateStr(lastOp.recon[1].nowMs) = 1
  /\ \E i \in 1..Len(db.spreads) : db.spreads[i].detected_at < DayMs
  /\ db.dailyStats[1].total_spreads = 1
  /\ DOMAIN db.dailyStats = {0, 1}

\* C27: every stored simulated trade has net_profit_usd = usd_received -
\* trade_size_usd - gas_cost_buy - gas_cost_sell and profit_pct =
\* net_profit_usd / trade_size_usd * 100, or profit_pct = 0 when
\* trade_size_usd <= 0.
C27_ProfitOfStoredTrade ==
  \A i \in 1..Len(db.simTrades) :
     LET t == db.simTrades[i]
     IN  /\ t.net_profit_usd
              = t.usd_received - t.trade_size_usd - t.gas_cost_buy - t.gas_cost_sell
         /\ IF t.trade_size_usd > 0
            THEN /\ t.profit_pct[2] > 0
                 /\ t.profit_pct[1] * t.trade_size_usd
                      = t.net_profit_usd * 100 * t.profit_pct[2]
            ELSE t.profit_pct = Zero

\* C27 witness: one spread simulated at the sizes -5000, 0 and 10000: the
\* first two trades are stored with a profit and profit_pct 0, the third with
\* a gas cost and profit_pct = 148 / 10000 * 100.
C27_Witness ==
  \E i, j, k \in 1..Len(db.simTrades) :
     /\ db.simTrades[i].trade_size_usd < 0
     /\ db.simTrades[i].net_profit_usd # 0
     /\ db.simTrades[i].profit_pct = Zero
     /\ db.simTrades[j].trade_size_usd = 0
     /\ db.simTrades[j].profit_pct = Zero
     /\ db.simTrades[k].trade_size_usd = 10000
     /\ db.simTrades[k].gas_cost_buy + db.simTrades[k].gas_cost_sell > 0
     /\ db.simTrades[k].net_profit_usd = 148
     /\ db.simTrades[k].profit_pct = <<37, 25>>

\* C28: fetchQuote for an unknown chain, or for a source or destination token
\* without an address on the requested chain, throws an invalid-input error
\* and issues no network request.
C28_InvalidInputBeforeNetwork ==
  (lastOp.op = "fetchQuote"
   /\ LET a == lastOp.ret[1].args
      IN  \/ a.chain \notin CHAIN_IDS
          \/ registryName(a.srcToken) \notin TOKEN_ADDRESSES[a.chain]
          \/ registryName(a.destToken) \notin TOKEN_ADDRESSES[a.chain])
  => /\ lastOp.ret[1].result.requests = 0
     /\ lastOp.ret[1].result.value = NULL
     /\ lastOp.ret[1].result.threw # NULL
     /\ lastOp.ret[1].result.threw[1].code \in {"INVALID_CHAIN", "INVALID_TOKEN"}

\* C28 witness: a quote for BTC on base, where WBTC has no address, with a
\* network that would have answered: INVALID_TOKEN and no request.
C28_Witness ==
  /\ lastOp.op = "fetchQuote"
  /\ lastOp.ret[1].args.chain = "base"
  /\ lastOp.ret[1].args.srcToken = "USDC"
  /\ lastOp.ret[1].args.destToken = "BTC"
  /\ lastOp.ret[1].args.net = [fetch |-> "response", status |-> 200, body |-> "valid"]
  /\ lastOp.ret[1].result = Threw(0, "INVALID_TOKEN", NULL)

\* the error kind the failure of a request calls for, NULL when it succeeded
FailureKind(net) ==
  CASE net.fetch = "AbortError" -> <<"TIMEOUT">>
    [] net.fetch = "TypeError"  -> <<"NETWORK_ERROR">>
    [] net.status = 429         -> <<"RATE_LIMITED">>
    [] net.status \notin 200..299 -> <<"HTTP_ERROR">>
    [] net.body = "SyntaxError" -> <<"MALFORMED_RESPONSE">>
    [] net.body = "AbortError"  -> <<"TIMEOUT">>
    [] net.body = "TypeError"   -> <<"NETWORK_ERROR">>
    [] OTHER                    -> NULL

\* C29: a request of fetchPrices or fetchQuote that fails yields no value and
\* the one error kind of its failure: 429 rate limited, another non-2xx status
\* HTTP error with the status, a JSON parse failure malformed response, an
\* abort by the timeout timeout, any other failure network error.
C29_FailedRequestTagged ==
  (lastOp.op \in {"fetchQuote", "fetchPrices"}
   /\ lastOp.ret[1].result.requests = 1
   /\ FailureKind(lastOp.ret[1].args.net) # NULL)
  => LET net == lastOp.ret[1].args.net
         r   == lastOp.ret[1].result
     IN  /\ r.value = NULL
         /\ r.threw # NULL
         /\ r.threw[1].code = FailureKind(net)[1]
         /\ r.threw[1].code = "HTTP_ERROR" => r.threw[1].status = <<net.status>>

\* C30: stop() called while a cycle is in flight does not interrupt it: stop()
\* leaves the invocations in flight and the store as they are, an invocation
\* ends only by returning its stats, and one that ends while the monitor is
\* stopped arms no timeout.
C30_StopDoesNotInterrupt ==
  [][ /\ lastOp'.op = "stop" => (cycles' = cycles /\ db' = db)
      /\ \A c \in DOMAIN cycles :
           c \notin DOMAIN cycles' =>
             /\ lastOp'.c = c
             /\ lastOp'.ret # NULL
             /\ lastOp'.ret[1].outcome = "resolved"
             /\ DOMAIN lastOp'.ret[1].stats
                  = {"priceCount", "spreadsDetected", "simulated", "errors"}
             /\ ~running => (timers' = timers /\ timer' = timer) ]_vars

\* C30 witness: the only invocation ever started, by start(), returned while
\* the monitor was stopped, so stop() came while it was in flight: it opened a
\* spread, simulated it and returned its stats, and no timeout is armed.
C30_Witness ==
  /\ ~running
  /\ started = 1
  /\ lastOp.ret # NULL
  /\ lastOp.ret[1].outcome = "resolved"
  /\ lastOp.ret[1].newSpreads # <<>>
  /\ lastOp.ret[1].stats.simulated > 0
  /\ db.simTrades # <<>>
  /\ timers = {}
  /\ timer = NULL

\* C31: start() called while the monitor is running logs that the call is a
\* no-op.
C31_NoOpStartIsLogged ==
  [][ (running /\ lastOp'.op = "start") => lastOp'.logs # <<>> ]_vars

\* the keys of the open spread rows of a store
OpenKeysOf(d) ==
  { spreadKey(getOpenSpreads(d)[i]) : i \in 1..Len(getOpenSpreads(d)) }

\* the keys of a list of candidates
KeysOf(cands) == { spreadKey(cands[i]) : i \in 1..Len(cands) }

\* the price fetch, the price storage and the reconcile of the invocation that
\* returned raised nothing
CoreSucceeded(ret) ==
  \A i \in 1..Len(ret.raised) :
     ret.raised[i] \notin {"PriceSourceError", "StoreError", "ReconcileError"}

\* the refined candidates of invocation c, which returns in this step: those
\* handed to processSpreads in this step, else those of its prices and the gas
\* costs of its refinement
RefinedOf(c) ==
  IF lastOp'.recon # NULL THEN lastOp'.recon[1].detectedSpreads
  ELSE IF cycles[c].detected = <<>> THEN <<>>
  ELSE detectSpreads(cycles[c].prices, cycles[c].gasCosts,
                     config.minGrossSpreadPct, config.minNetSpreadPct,
                     ReferenceTradeSize)

\* C32: when a cycle whose price fetch, price storage and reconcile succeeded
\* returns, the keys of the open spreads are the keys of its refined
\* candidates.
C32_OpenKeysAreRefinedKeys ==
  [][ (lastOp'.ret # NULL /\ lastOp'.c \in DOMAIN cycles
       /\ CoreSucceeded(lastOp'.ret[1]))
      => OpenKeysOf(db') = KeysOf(RefinedOf(lastOp'.c)) ]_vars

\* C33: every closed spread has closed_at >= detected_at and
\* duration_seconds >= 0, whatever the interleaving of the cycles.
C33_ClosedAfterDetected ==
  \A i \in 1..Len(db.spreads) :
     ~IsOpen(db.spreads[i]) =>
        /\ db.spreads[i].closed_at[1] >= db.spreads[i].detected_at
        /\ db.spreads[i].duration_seconds[1] >= 0

\* C34: the gas cost a refined candidate's chain carries comes from a
\* refinement quote requested for that candidate's trading pair on that chain.
C34_GasQuotedForOwnPair ==
  [][ (lastOp'.recon # NULL /\ lastOp'.op = "quoteSettles") =>
        \A i \in 1..Len(lastOp'.recon[1].detectedSpreads) :
           LET d == lastOp'.recon[1].detectedSpreads[i]
           IN  \A ch \in {d.buyChain, d.sellChain} :
                 \E n \in 1..Len(ReqsAfter(lastOp'.c)) :
                    /\ ReqsAfter(lastOp'.c)[n].kind = "refine"
                    /\ ReqsAfter(lastOp'.c)[n].chain = ch
                    /\ ReqsAfter(lastOp'.c)[n].pair = d.pair ]_vars

\* the stored simulated trades of the UTC day that contains nowMs
TradesOnDayOf(d, nowMs) ==
  SelectSeq(d.simTrades, LAMBDA t : t.timestamp \div DayMs = nowMs \div DayMs)

\* C35: when a cycle that opened a spread returns, the statistics row of its
\* UTC day has sim_trades and total_sim_profit equal to the count and the
\* profit sum of the simulated trades stored for that day, those of the cycle
\* included.
C35_DailyStatsCountCycleTrades ==
  [][ (lastOp'.ret # NULL /\ lastOp'.c \in DOMAIN cycles
       /\ lastOp'.ret[1].newSpreads # <<>>)
      => LET now  == cycles[lastOp'.c].nowMs
             day  == todayDateStr(now)
             rows == TradesOnDayOf(db', now)
         IN  /\ day \in DOMAIN db'.dailyStats
             /\ db'.dailyStats[day].sim_trades = Len(rows)
             /\ db'.dailyStats[day].total_sim_profit
                  = SumInt([i \in 1..Len(rows) |-> rows[i].net_profit_usd]) ]_vars

\* the requests of a list that are of the given kinds
OfKinds(reqs, kinds) == SelectSeq(reqs, LAMBDA q : q.kind \in kinds)

\* the chains that buy or sell in some candidate
ChainsOf(cands) ==
  UNION { {cands[i].buyChain, cands[i].sellChain} : i \in 1..Len(cands) }

\* C36: the steps of a cycle come in the order price fetch, persistence of the
\* prices, first detection, refinement quotes, second detection, reconcile,
\* simulations.  The step that ends the price fetch stores every returned
\* price before it requests any quote; no refinement quote is requested after
\* a simulation quote; the reconcile comes once, in the step that ends the
\* price fetch without a candidate or in the step that settles the last
\* refinement quote, before any simulation quote; and a simulation quote is
\* requested only by a cycle that has reconciled and opened spreads.
C36_StepsInOrder ==
  [][ lastOp'.c \in DOMAIN cycles =>
        LET c     == lastOp'.c
            old   == cycles[c]
            reqs  == ReqsAfter(c)
            added == SubSeq(reqs, Len(old.reqs) + 1, Len(reqs))
        IN  /\ old.pc = "fetch" => old.reqs = <<>> /\ old.newSpreads = <<>>
            /\ (lastOp'.op = "fetchReturns" /\ reqs # <<>>) =>
                  /\ Len(db'.prices) = Len(db.prices) + Len(cycles'[c].prices)
                  /\ cycles'[c].stats.priceCount = Len(cycles'[c].prices)
                  /\ lastOp'.recon = NULL
                  /\ OfKinds(reqs, {"buy", "sell"}) = <<>>
            /\ \A i, j \in 1..Len(reqs) :
                  (i < j /\ reqs[i].kind \in {"buy", "sell"}) => reqs[j].kind # "refine"
            /\ lastOp'.recon # NULL =>
                  /\ lastOp'.op \in {"fetchReturns", "quoteSettles"}
                  /\ OfKinds(old.reqs, {"buy", "sell"}) = <<>>
                  /\ old.newSpreads = <<>>
                  /\ lastOp'.op = "fetchReturns" => (reqs = <<>> /\ added = <<>>)
                  /\ lastOp'.op = "quoteSettles" =>
                        /\ OfKinds(added, {"refine"}) = <<>>
                        /\ { old.reqs[i].chain : i \in 1..Len(old.reqs) }
                             = ChainsOf(old.detected)
            /\ OfKinds(added, {"buy", "sell"}) # <<>> =>
                  /\ lastOp'.recon # NULL \/ old.newSpreads # <<>>
                  /\ c \in DOMAIN cycles'
                  /\ \A n \in 1..Len(added) :
                       \E k \in 1..Len(cycles'[c].newSpreads) :
                          /\ added[n].pair = cycles'[c].newSpreads[k].pair
                          /\ added[n].chain \in {cycles'[c].newSpreads[k].buyChain,
                                                 cycles'[c].newSpreads[k].sellChain} ]_vars

\* C36 witness: a cycle returned after it stored two prices, requested two
\* refinement quotes, then a buy and a sell quote for the spread it opened, and
\* stored the trade.
C36_Witness ==
  /\ lastOp.ret # NULL
  /\ lastOp.ret[1].stats.priceCount = 2
  /\ Len(db.prices) = 2
  /\ [i \in 1..Len(lastOp.ret[1].reqs) |-> lastOp.ret[1].reqs[i].kind]
       = <<"refine", "refine", "buy", "sell">>
  /\ Len(lastOp.ret[1].newSpreads) = 1
  /\ lastOp.ret[1].stats.simulated = 1
  /\ Len(db.simTrades) = 1

\* the prices the invocation that returns in this step received and stored:
\* the last priceCount rows of the prices table (cycles do not overlap)
StoredPricesOf(ret) ==
  SubSeq(db'.prices, Len(db'.prices) - ret.stats.priceCount + 1, Len(db'.prices))

\* C37: a cycle requests refinement quotes only when its first detection (with
\* empty gas costs) found a candidate, and then exactly one for each distinct
\* chain that buys or sells in some candidate; a cycle without candidates
\* requests no execution quote at all.
C37_OneRefinementQuotePerChain ==
  [][ (lastOp'.ret # NULL /\ lastOp'.c \in DOMAIN cycles) =>
        \A ret \in {lastOp'.ret[1]} :
        \A det \in {detectSpreads(StoredPricesOf(ret), <<>>,
                                  config.minGrossSpreadPct,
                                  config.minNetSpreadPct, ReferenceTradeSize)} :
        \A refine \in {OfKinds(ret.reqs, {"refine"})} :
            /\ Len(refine) = Cardinality(ChainsOf(det))
            /\ { refine[i].chain : i \in 1..Len(refine) } = ChainsOf(det)
            /\ \A i \in 1..Len(refine) : refine[i].amount = ReferenceTradeSize
            /\ det = <<>> => ret.reqs = <<>> ]_vars

\* C37 witness: a cycle returned whose three prices gave two candidates that
\* share a chain: three refinement quotes, one for each chain.
C37_Witness ==
  /\ lastOp.ret # NULL
  /\ lastOp.ret[1].stats.priceCount = 3
  /\ LET refine == OfKinds(lastOp.ret[1].reqs, {"refine"})
     IN  /\ Len(refine) = 3
         /\ { refine[i].chain : i \in 1..3 } = {"ethereum", "arbitrum", "base"}
  /\ Len(lastOp.ret[1].newSpreads) = 2

====
